---------------------------- MODULE Spec2Model ----------------------------
(***************************************************************************)
(* A model of lifter: the cache (lifter/caches.py), the attribute resolver  *)
(* (lifter/utils.py), the HTTP backend's querystring builder                *)
(* (lifter/backends/http.py) and, from the specification, the query tree,   *)
(* the in-memory store and the lazy QuerySet.                               *)
(***************************************************************************)
EXTENDS Integers, Sequences, FiniteSets, TLC

VARIABLES
    enabled,          \* Cache.enabled
    data,             \* DummyCache._data: key -> (expires_on, value)
    now,              \* what Cache.get_now() returns
    default_timeout,  \* Cache.default_timeout
    stack,            \* the CacheTogglers whose with-block is open, innermost last
    togglers,         \* the CacheTogglers that enable() and disable() returned
    written,          \* history: key -> the time, timeout and value of its last
                      \* set(key, value, T) with a number T
    last,             \* the last operation and what it returned
    hquery,           \* remote backend: the query handed to RESTStore.handle_select
    hresult,          \* remote backend: what handle_select did with it
    objects,          \* in-memory store: the collection the store owns
    conds,            \* the two conditions p and q a query is built from
    qresult,          \* what the last QuerySet operation returned
    broken,           \* store: whether executing against the medium fails
    qsets,            \* the QuerySets built so far
    arg,              \* the arguments of a function called on its own
    res               \* what the function returned

cacheVars == <<enabled, data, now, default_timeout, stack, togglers, written, last>>
httpVars == <<hquery, hresult>>
queryVars == <<objects, conds, qresult>>
storeVars == <<broken, qsets>>
pureVars == <<arg, res>>

vars == <<enabled, data, now, default_timeout, stack, togglers, written, last,
          hquery, hresult, objects, conds, qresult, broken, qsets,
          arg, res>>

----------------------------------------------------------------------------
(* Bounds *)

MaxTime == 2
MaxTimeout == 1
MaxDepth == 2
MaxVal == 2
MaxRecs == 2
MaxTags == 2
MaxSub == 2
MaxQS == 2
MaxObs == 2
MaxTogglers == 2

----------------------------------------------------------------------------
(* Python values *)

\* None and False as returned values; cached values are never these strings
NoneVal == "None"
FalseVal == "False"

\* an optional number: None is <<>>, the number n is <<n>>
NoTimeout == <<>>
Secs(n) == <<n>>

\* the timeout argument of Cache.set: the sentinel NotSet, or an optional number
NotSet == [given |-> FALSE, secs |-> NoTimeout]
Timeout(t) == [given |-> TRUE, secs |-> t]

\* the value argument of Cache.set: a plain value, or a zero-argument callable
\* returning v
Plain(v) == [callable |-> FALSE, v |-> v]
Callable(v) == [callable |-> TRUE, v |-> v]

Keys == {"k1", "k2"}
Values == {"v1", "v2"}
Timeouts == {NoTimeout} \cup {Secs(n) : n \in 1..MaxTimeout}

----------------------------------------------------------------------------
(* lifter/caches.py: DummyCache *)

\* DummyCache._set: the entry stored under key
DummySet(d, t, key, value, timeout) ==
    LET expires_on == IF timeout # NoTimeout
                      THEN Secs(t + timeout[1])
                      ELSE NoTimeout
    IN  [k \in (DOMAIN d) \cup {key} |->
            IF k = key THEN [expires_on |-> expires_on, value |-> value]
            ELSE d[k]]

\* the expiry test of DummyCache._get
Expired(expires_on, t) == expires_on[1] < t

\* (mutant) DummyCache._get sweeps every expired entry
DummyGet_Sweep(d, t, key) ==
    LET kept == {k \in DOMAIN d :
                    d[k].expires_on = NoTimeout \/ ~Expired(d[k].expires_on, t)}
    IN  IF key \in kept
        THEN [found |-> TRUE, value |-> d[key].value, data |-> [k \in kept |-> d[k]]]
        ELSE [found |-> FALSE, value |-> NoneVal, data |-> [k \in kept |-> d[k]]]

\* DummyCache._get: found, the value, and _data afterwards
DummyGet(d, t, key) ==
    IF key \notin DOMAIN d
    THEN [found |-> FALSE, value |-> NoneVal, data |-> d]
    ELSE IF d[key].expires_on = NoTimeout
    THEN [found |-> TRUE, value |-> d[key].value, data |-> d]
    ELSE IF Expired(d[key].expires_on, t)
    THEN [found |-> FALSE, value |-> NoneVal,
          data |-> [k \in (DOMAIN d) \ {key} |-> d[k]]]
    ELSE [found |-> TRUE, value |-> d[key].value, data |-> d]

----------------------------------------------------------------------------
(* lifter/caches.py: Cache *)

\* (mutant) Cache.get reads the entries whether or not the cache is enabled
CacheGet_Always(en, d, t, key, default, reraise) ==
    LET r == DummyGet(d, t, key)
    IN  IF r.found
        THEN [exc |-> "", ret |-> r.value, data |-> r.data, got |-> TRUE]
        ELSE IF reraise
        THEN [exc |-> "NotInCache", ret |-> NoneVal, data |-> r.data, got |-> TRUE]
        ELSE [exc |-> "", ret |-> default, data |-> r.data, got |-> TRUE]

\* Cache.get: exc is "" when the call returns ret; got tells whether the
\* backend-level _get was called
CacheGet(en, d, t, key, default, reraise) ==
    IF ~en
    THEN IF reraise
         THEN [exc |-> "DisabledCache", ret |-> NoneVal, data |-> d, got |-> FALSE]
         ELSE [exc |-> "", ret |-> default, data |-> d, got |-> FALSE]
    ELSE LET r == DummyGet(d, t, key)
         IN  IF r.found
             THEN [exc |-> "", ret |-> r.value, data |-> r.data, got |-> TRUE]
             ELSE IF reraise
             THEN [exc |-> "NotInCache", ret |-> NoneVal, data |-> r.data, got |-> TRUE]
             ELSE [exc |-> "", ret |-> default, data |-> r.data, got |-> TRUE]

\* (mutant) Cache.set takes a timeout of None for an omitted one
CacheSet_NoneIsDefault(en, d, t, dflt, key, value, timeout) ==
    IF ~en
    THEN [ret |-> FalseVal, data |-> d, called |-> FALSE, stored |-> FALSE]
    ELSE LET tmo == IF timeout.secs = NoTimeout THEN dflt ELSE timeout.secs
         IN  [ret |-> value.v,
              data |-> DummySet(d, t, key, value.v, tmo),
              called |-> value.callable,
              stored |-> TRUE]

\* (mutant) Cache.set stores whether or not the cache is enabled
CacheSet_Always(en, d, t, dflt, key, value, timeout) ==
    LET tmo == IF timeout = NotSet THEN dflt ELSE timeout.secs
    IN  [ret |-> IF en THEN value.v ELSE FalseVal,
         data |-> DummySet(d, t, key, value.v, tmo),
         called |-> value.callable,
         stored |-> TRUE]

\* Cache.set: what it returns, _data afterwards, whether a callable value was
\* called, whether _set was called
CacheSet(en, d, t, dflt, key, value, timeout) ==
    IF ~en
    THEN [ret |-> FalseVal, data |-> d, called |-> FALSE, stored |-> FALSE]
    ELSE LET tmo == IF timeout = NotSet THEN dflt ELSE timeout.secs
         IN  [ret |-> value.v,
              data |-> DummySet(d, t, key, value.v, tmo),
              called |-> value.callable,
              stored |-> TRUE]

\* Cache.get_or_set
CacheGetOrSet(en, d, t, dflt, key, value) ==
    LET g == CacheGet(en, d, t, key, NoneVal, TRUE)
    IN  IF g.exc = ""
        THEN [exc |-> "", ret |-> g.ret, data |-> g.data, got |-> g.got,
              called |-> FALSE, stored |-> FALSE]
        ELSE IF g.exc = "NotInCache"
        THEN LET s == CacheSet(en, g.data, t, dflt, key, value, NotSet)
             IN  [exc |-> "", ret |-> s.ret, data |-> s.data, got |-> g.got,
                  called |-> s.called, stored |-> s.stored]
        ELSE [exc |-> g.exc, ret |-> NoneVal, data |-> g.data, got |-> g.got,
              called |-> FALSE, stored |-> FALSE]

----------------------------------------------------------------------------
(* lifter/caches.py: CacheToggler *)

\* (mutant) __init__ takes the flag to be the opposite of new_value
TogglerInit_Opposite(en, new_value) ==
    [new_value |-> new_value, previous_value |-> ~new_value]

\* CacheToggler.__init__
TogglerInit(en, new_value) ==
    [new_value |-> new_value, previous_value |-> en]

\* CacheToggler.__enter__: the flag afterwards
TogglerEnter(tog) == tog.new_value

\* (mutant) __exit__ switches the flag back instead of restoring it
TogglerExit_Negate(tog) == ~tog.new_value

\* CacheToggler.__exit__: the flag afterwards
TogglerExit(tog) == tog.previous_value

Top(s) == s[Len(s)]
Pop(s) == SubSeq(s, 1, Len(s) - 1)

----------------------------------------------------------------------------
(* Query nodes, as the remote backend reads them *)

\* a field name is the sequence of its characters
Name(s) == <<s>>

\* a leaf: path (the sequence of its dotted segments), lookup (its
\* registry_name), value (its reference_value), inverted
Leaf(path, lookup, value, inverted) ==
    [kind |-> "leaf", path |-> path, lookup |-> lookup, value |-> value,
     inverted |-> inverted]

\* a composite: operator, subqueries, inverted
Wrap(operator, subqueries, inverted) ==
    [kind |-> "wrap", operator |-> operator, subqueries |-> subqueries,
     inverted |-> inverted]

NoNode == [kind |-> "none"]

\* ~node
Invert(node) == [node EXCEPT !.inverted = ~node.inverted]

\* hasattr(node, 'lookup'), hasattr(node, 'operator')
HasLookup(node) == node.kind = "leaf"
HasOperator(node) == node.kind = "wrap"

RECURSIVE Join(_, _)
\* sep.join(parts), on sequences of characters
Join(parts, sep) ==
    IF parts = << >> THEN << >>
    ELSE IF Len(parts) = 1 THEN parts[1]
    ELSE parts[1] \o sep \o Join(Tail(parts), sep)

\* str(node.path): the dotted segments
PathStr(path) == Join(path, <<".">>)

----------------------------------------------------------------------------
(* Records: integers, mappings, attribute-bearing objects and lists of them *)

Num(n) == [t |-> "int", v |-> n]
Dict(f) == [t |-> "dict", f |-> f]
Obj(f) == [t |-> "obj", f |-> f]
List(items) == [t |-> "list", items |-> items]
Method(name) == [t |-> "method", name |-> name]

\* IterableAttr.__init__
IterableAttr(items, key) == [t |-> "iattr", items |-> items, key |-> key]

\* the result of a call that may raise MissingField
Found(v) == [ok |-> TRUE, v |-> v]
Missing == [ok |-> FALSE, v |-> Num(0)]

\* the attributes getattr finds on the class of obj: the methods of list and dict
ClassAttrs(obj) ==
    IF obj.t = "list" THEN {"count", "index", "append", "sort"}
    ELSE IF obj.t = "dict" THEN {"items", "keys", "values", "get"}
    ELSE {}

\* isinstance(obj, Iterable)
IsIterable(obj) == obj.t \in {"list", "dict"}

----------------------------------------------------------------------------
(* lifter/utils.py: resolve_attr, IterableAttr *)

RECURSIVE ResolveAttr(_, _)
RECURSIVE Resolved(_, _)

\* IterableAttr.get_resolved_items: the loop over items, skipping the items
\* for which the getter raises MissingField
Resolved(items, key) ==
    IF items = << >> THEN << >>
    ELSE LET r == ResolveAttr(items[1], key)
         IN  (IF r.ok THEN <<r.v>> ELSE << >>) \o Resolved(Tail(items), key)

\* IterableAttr.get_resolved_items
GetResolvedItems(ia) == Resolved(ia.items, ia.key)

\* (mutant) resolve_attr returns a value where it raises MissingField
ResolveAttr_NoRaise(obj, name) ==
    IF obj.t = "dict"
    THEN (IF name \in DOMAIN obj.f THEN Found(obj.f[name]) ELSE Found(Num(0)))
    ELSE IF obj.t = "iattr"
    THEN Found(IterableAttr(GetResolvedItems(obj), name))
    ELSE IF obj.t = "obj" /\ name \in DOMAIN obj.f
    THEN Found(obj.f[name])
    ELSE IF name \in ClassAttrs(obj)
    THEN Found(Method(name))
    ELSE IF obj.t = "list"
    THEN Found(IterableAttr(obj.items, name))
    ELSE Found(Num(0))

\* (mutant) resolve_attr wraps an iterable before trying getattr
ResolveAttr_WrapFirst(obj, name) ==
    IF obj.t = "dict"
    THEN (IF name \in DOMAIN obj.f THEN Found(obj.f[name]) ELSE Missing)
    ELSE IF obj.t = "iattr"
    THEN Found(IterableAttr(GetResolvedItems(obj), name))
    ELSE IF obj.t = "obj" /\ name \in DOMAIN obj.f
    THEN Found(obj.f[name])
    ELSE IF IsIterable(obj)
    THEN Found(IterableAttr(obj.items, name))
    ELSE IF name \in ClassAttrs(obj)
    THEN Found(Method(name))
    ELSE Missing

\* resolve_attr(obj, name): the value, or MissingField
ResolveAttr(obj, name) ==
    IF obj.t = "dict"
    THEN (IF name \in DOMAIN obj.f THEN Found(obj.f[name]) ELSE Missing)
    ELSE IF obj.t = "iattr"
    THEN Found(IterableAttr(GetResolvedItems(obj), name))
    ELSE IF obj.t = "obj" /\ name \in DOMAIN obj.f
    THEN Found(obj.f[name])
    ELSE IF name \in ClassAttrs(obj)
    THEN Found(Method(name))
    ELSE IF IsIterable(obj)
    THEN Found(IterableAttr(obj.items, name))
    ELSE Missing

RECURSIVE IterableAttrEq(_, _)
\* IterableAttr.__eq__: other in self.get_resolved_items()
IterableAttrEq(ia, other) ==
    LET items == GetResolvedItems(ia)
    IN  \E i \in 1..Len(items) :
            IF items[i].t = "iattr" THEN IterableAttrEq(items[i], other)
            ELSE items[i] = other

\* a lookup called on a value: the test handed to _resolve_test
\* (lifter/lookups.py: eq is ==, gt is >, exists is false of the empty
\* sequence an empty view is tested with)
ApplyLookup(lookup, operand, value) ==
    IF lookup = "eq"
    THEN [exc |-> "", v |-> IF value.t = "iattr" THEN IterableAttrEq(value, operand)
                            ELSE value = operand]
    ELSE IF lookup = "exists"
    THEN [exc |-> "", v |-> value # List(<< >>)]
    ELSE IF value.t = "int" /\ operand.t = "int"
    THEN [exc |-> "", v |-> value.v > operand.v]
    ELSE [exc |-> "TypeError", v |-> FALSE]

\* any([...]) of results that may have raised: the first exception, else
\* whether one is true
AnyOf(results) ==
    IF \E i \in 1..Len(results) : results[i].exc # ""
    THEN LET i == CHOOSE j \in 1..Len(results) :
                      /\ results[j].exc # ""
                      /\ \A h \in 1..(j - 1) : results[h].exc = ""
         IN  [exc |-> results[i].exc, v |-> FALSE]
    ELSE [exc |-> "", v |-> \E i \in 1..Len(results) : results[i].v]

\* (mutant) all([...]) in place of any([...])
AllOf(results) ==
    IF \E i \in 1..Len(results) : results[i].exc # ""
    THEN LET i == CHOOSE j \in 1..Len(results) :
                      /\ results[j].exc # ""
                      /\ \A h \in 1..(j - 1) : results[h].exc = ""
         IN  [exc |-> results[i].exc, v |-> FALSE]
    ELSE [exc |-> "", v |-> \A i \in 1..Len(results) : results[i].v]

RECURSIVE ResolveTest(_, _, _)

\* (mutant) _resolve_test asks every resolved item to pass the test
ResolveTest_All(ia, lookup, operand) ==
    LET items == GetResolvedItems(ia)
    IN  IF items = << >> THEN ApplyLookup(lookup, operand, List(<< >>))
        ELSE IF items[1].t = "iattr"
        THEN AllOf([i \in 1..Len(items) |->
                      IF items[i].t = "iattr"
                      THEN ResolveTest(items[i], lookup, operand)
                      ELSE [exc |-> "AttributeError", v |-> FALSE]])
        ELSE AllOf([i \in 1..Len(items) |-> ApplyLookup(lookup, operand, items[i])])

\* IterableAttr._resolve_test(test), test being the lookup with its operand
ResolveTest(ia, lookup, operand) ==
    LET items == GetResolvedItems(ia)
    IN  IF items = << >> THEN ApplyLookup(lookup, operand, List(<< >>))
        ELSE IF items[1].t = "iattr"
        THEN AnyOf([i \in 1..Len(items) |->
                      IF items[i].t = "iattr"
                      THEN ResolveTest(items[i], lookup, operand)
                      ELSE [exc |-> "AttributeError", v |-> FALSE]])
        ELSE AnyOf([i \in 1..Len(items) |-> ApplyLookup(lookup, operand, items[i])])

----------------------------------------------------------------------------
(* The query tree evaluated on a record, and the in-memory store *)

RECURSIVE ResolvePath(_, _)
\* the path resolved against a record, one segment after the other
ResolvePath(obj, path) ==
    IF path = << >> THEN Found(obj)
    ELSE LET r == ResolveAttr(obj, path[1])
         IN  IF r.ok THEN ResolvePath(r.v, Tail(path)) ELSE Missing

\* a leaf evaluated on a record: MissingField propagates, except that the
\* exists lookup takes it for absence
MatchLeaf(node, obj) ==
    LET r == ResolvePath(obj, node.path)
        m == IF ~r.ok
             THEN (IF node.lookup = "exists" THEN [exc |-> "", v |-> FALSE]
                   ELSE [exc |-> "MissingField", v |-> FALSE])
             ELSE IF r.v.t = "iattr" THEN ResolveTest(r.v, node.lookup, node.value)
             ELSE ApplyLookup(node.lookup, node.value, r.v)
    IN  IF m.exc # "" THEN m ELSE [exc |-> "", v |-> (m.v # node.inverted)]

RECURSIVE Match(_, _)

\* a node evaluated on a record: AND is the conjunction of the subqueries, OR
\* their disjunction, and inverted negates the node's own result
Match(node, obj) ==
    IF node.kind = "leaf" THEN MatchLeaf(node, obj)
    ELSE LET subs == [i \in 1..Len(node.subqueries) |-> Match(node.subqueries[i], obj)]
             m == IF node.operator = "AND" THEN AllOf(subs) ELSE AnyOf(subs)
         IN  IF m.exc # "" THEN m ELSE [exc |-> "", v |-> (m.v # node.inverted)]

\* the value of an expression, named once: the element of a one-element set
Only(S) == CHOOSE x \in S : TRUE

\* an ordering of order_by: a path, ascending or (reverse) descending
Ordering(path, reverse) == [path |-> path, reverse |-> reverse]

RECURSIVE Before(_, _, _)
\* r1 sorts strictly before r2: the first ordering whose keys differ decides
Before(os, r1, r2) ==
    IF os = << >> THEN FALSE
    ELSE LET k1 == ResolvePath(r1, os[1].path).v.v
             k2 == ResolvePath(r2, os[1].path).v.v
         IN  IF k1 = k2 THEN Before(Tail(os), r1, r2)
             ELSE IF os[1].reverse THEN k1 > k2 ELSE k1 < k2

RECURSIVE InsertRow(_, _, _)

\* (mutant) r put before the rows it does not sort after
InsertRow_BeforeEqual(sorted, r, os) ==
    IF sorted = << >> THEN <<r>>
    ELSE IF ~Before(os, sorted[1], r) THEN <<r>> \o sorted
    ELSE <<sorted[1]>> \o InsertRow(Tail(sorted), r, os)

\* r put after the rows that do not sort after it
InsertRow(sorted, r, os) ==
    IF sorted = << >> THEN <<r>>
    ELSE IF Before(os, r, sorted[1]) THEN <<r>> \o sorted
    ELSE <<sorted[1]>> \o InsertRow(Tail(sorted), r, os)

RECURSIVE SortRows(_, _)
\* the stable sort of the rows by the orderings
SortRows(rows, os) ==
    IF rows = << >> THEN << >>
    ELSE Only({InsertRow(front, rows[Len(rows)], os) :
                  front \in {SortRows(SubSeq(rows, 1, Len(rows) - 1), os)}})

RECURSIVE SelectRows(_, _)
\* the records of the collection that match, in the collection's order, or
\* the exception of the first record whose evaluation raises
SelectRows(coll, filters) ==
    IF coll = << >> THEN [exc |-> "", rows |-> << >>]
    ELSE Only({IF m.exc # "" THEN [exc |-> m.exc, rows |-> << >>]
               ELSE IF rest.exc # "" THEN rest
               ELSE [exc |-> "",
                     rows |-> (IF m.v THEN <<coll[1]>> ELSE << >>) \o rest.rows] :
                  m \in {IF filters = NoNode THEN [exc |-> "", v |-> TRUE]
                         ELSE Match(filters, coll[1])},
                  rest \in {SelectRows(Tail(coll), filters)}})

\* the in-memory store's select: the records of the collection that match,
\* in the collection's order, or sorted by the query's orderings
StoreSelect(coll, query) ==
    LET Lacks(r) == \E k \in 1..Len(query.orderings) :
                        ~ResolvePath(r, query.orderings[k].path).ok
    IN  Only({IF sel.exc # "" THEN sel
              ELSE IF \E i \in 1..Len(sel.rows) : Lacks(sel.rows[i])
              THEN [exc |-> "MissingField", rows |-> << >>]
              ELSE [exc |-> "", rows |-> SortRows(sel.rows, query.orderings)] :
                 sel \in {SelectRows(coll, query.filters)}})

----------------------------------------------------------------------------
(* The QuerySet's building operations *)

\* p & q, p | q
And(p, q) == Wrap("AND", <<p, q>>, FALSE)
Or(p, q) == Wrap("OR", <<p, q>>, FALSE)

RECURSIVE AndAll(_)
\* the conjunction of the positional conditions
AndAll(cs) ==
    IF Len(cs) = 1 THEN cs[1]
    ELSE And(AndAll(SubSeq(cs, 1, Len(cs) - 1)), cs[Len(cs)])

\* manager.all().query
AllQuery == [filters |-> NoNode, orderings |-> << >>]

\* the new filter AND-combined with the query's filter
Combine(query, node) ==
    [query EXCEPT !.filters = IF query.filters = NoNode THEN node
                              ELSE And(query.filters, node)]

\* queryset.filter(*conditions): the query of the new QuerySet
QFilter(query, cs) == Combine(query, AndAll(cs))

\* (mutant) exclude negates each condition instead of their conjunction
QExclude_Each(query, cs) ==
    Combine(query, AndAll([i \in 1..Len(cs) |-> Invert(cs[i])]))

\* queryset.exclude(*conditions): the query of the new QuerySet
QExclude(query, cs) == Combine(query, Invert(AndAll(cs)))

\* (mutant) get returns the first of several matches
QGet_First(coll, query, cs) ==
    Only({IF r.exc # "" THEN [exc |-> r.exc, rows |-> << >>]
          ELSE IF Len(r.rows) = 0 THEN [exc |-> "DoesNotExist", rows |-> << >>]
          ELSE [exc |-> "", rows |-> <<r.rows[1]>>] :
             r \in {StoreSelect(coll, QFilter(query, cs))}})

\* queryset.get(*conditions): the record, in rows, or the exception
QGet(coll, query, cs) ==
    Only({IF r.exc # "" THEN [exc |-> r.exc, rows |-> << >>]
          ELSE IF Len(r.rows) = 0 THEN [exc |-> "DoesNotExist", rows |-> << >>]
          ELSE IF Len(r.rows) > 1
          THEN [exc |-> "MultipleObjectsReturned", rows |-> << >>]
          ELSE [exc |-> "", rows |-> <<r.rows[1]>>] :
             r \in {StoreSelect(coll, QFilter(query, cs))}})

\* queryset.order_by(*orderings): the query of the new QuerySet
QOrderBy(query, os) == [query EXCEPT !.orderings = os]

\* sequences of at most n elements of S
SeqsUpTo(S, n) == UNION {[1..k -> S] : k \in 0..n}

QueryIdle ==
    /\ objects = << >>
    /\ conds = [p |-> NoNode, q |-> NoNode]
    /\ qresult = [op |-> "init", exc |-> "", rows |-> << >>]

StoreIdle ==
    /\ broken = FALSE
    /\ qsets = << >>

\* no function called on its own
NoCall == [op |-> "none"]
PureIdle ==
    /\ arg = NoCall
    /\ res = NoCall

----------------------------------------------------------------------------
(* lifter/utils.py: to_camel_case *)

UpperOf == [a |-> "A", b |-> "B", A |-> "A", B |-> "B"]
LowerOf == [a |-> "a", b |-> "b", A |-> "a", B |-> "b"]

\* str.upper and str.lower on one character
Upper(c) == IF c \in DOMAIN UpperOf THEN UpperOf[c] ELSE c
Lower(c) == IF c \in DOMAIN LowerOf THEN LowerOf[c] ELSE c

RECURSIVE Split(_, _)
\* s.split(sep), sep one character
Split(s, sep) ==
    IF \A i \in 1..Len(s) : s[i] # sep THEN <<s>>
    ELSE LET i == CHOOSE j \in 1..Len(s) :
                      s[j] = sep /\ \A h \in 1..(j - 1) : s[h] # sep
         IN  <<SubSeq(s, 1, i - 1)>> \o Split(SubSeq(s, i + 1, Len(s)), sep)

\* x.capitalize()
Capitalize(x) ==
    [i \in 1..Len(x) |-> IF i = 1 THEN Upper(x[i]) ELSE Lower(x[i])]

\* to_camel_case(s)
ToCamelCase(s) ==
    LET parts == Split(s, "_")
        caps == [i \in 1..Len(parts) |->
                    IF Capitalize(parts[i]) # << >> THEN Capitalize(parts[i])
                    ELSE <<"_">>]
        new_s == Join(caps, << >>)
    IN  IF new_s # << >> THEN <<Lower(new_s[1])>> \o Tail(new_s) ELSE << >>

----------------------------------------------------------------------------
(* lifter/backends/http.py: QueryStringBuilder, SimpleQueryStringBuilder *)

\* SimpleQueryStringBuilder.support_table
SupportedLookups == {"eq"}
SupportedOperators == {"AND"}

\* a dict: its keys in insertion order, and their values
EmptyDict == [keys |-> << >>, val |-> << >>]

Raise(exc, node) == [exc |-> exc, node |-> node]
NoExc == Raise("", NoNode)

\* (mutant) check_support lets inverted nodes through
CheckSupport_NoNot(node) ==
    IF HasLookup(node) /\ node.lookup \notin SupportedLookups
    THEN Raise("UnsupportedQuery", node)
    ELSE IF HasOperator(node) /\ node.operator \notin SupportedOperators
    THEN Raise("UnsupportedQuery", node)
    ELSE NoExc

\* QueryStringBuilder.check_support: the exception raised, if any
CheckSupport(node) ==
    IF node.inverted /\ "NOT" \notin SupportedOperators
    THEN Raise("UnsupportedQuery", node)
    ELSE IF HasLookup(node) /\ node.lookup \notin SupportedLookups
    THEN Raise("UnsupportedQuery", node)
    ELSE IF HasOperator(node) /\ node.operator \notin SupportedOperators
    THEN Raise("UnsupportedQuery", node)
    ELSE NoExc

RECURSIVE Iterate(_)
RECURSIVE IterateAll(_)

\* the loop of iterate over node.subqueries: what is yielded until a
\* subquery raises
IterateAll(subqueries) ==
    IF subqueries = << >> THEN [raised |-> NoExc, items |-> << >>]
    ELSE LET first == Iterate(subqueries[1])
         IN  IF first.raised # NoExc THEN first
             ELSE LET rest == IterateAll(Tail(subqueries))
                  IN  [raised |-> rest.raised, items |-> first.items \o rest.items]

\* SimpleQueryStringBuilder.iterate: the (key, value) pairs yielded, and the
\* exception that ends the generator, if any
Iterate(node) ==
    IF CheckSupport(node) # NoExc
    THEN [raised |-> CheckSupport(node), items |-> << >>]
    ELSE IF node.kind = "wrap" THEN IterateAll(node.subqueries)
    ELSE [raised |-> NoExc, items |-> <<<<PathStr(node.path), node.value>>>>]

\* (mutant) d[key] = [value]: a later leaf replaces the earlier ones
SetDefaultAppend_Overwrite(d, key, value) ==
    [keys |-> IF key \in DOMAIN d.val THEN d.keys ELSE Append(d.keys, key),
     val |-> [k \in (DOMAIN d.val) \cup {key} |->
                IF k = key THEN <<value>> ELSE d.val[k]]]

\* l = d.setdefault(key, []); l.append(value)
SetDefaultAppend(d, key, value) ==
    [keys |-> IF key \in DOMAIN d.val THEN d.keys ELSE Append(d.keys, key),
     val |-> [k \in (DOMAIN d.val) \cup {key} |->
                IF k = key
                THEN (IF key \in DOMAIN d.val THEN Append(d.val[key], value)
                      ELSE <<value>>)
                ELSE d.val[k]]]

RECURSIVE Collect(_, _)
\* the loop of get_filters_as_dict
Collect(d, items) ==
    IF items = << >> THEN d
    ELSE Collect(SetDefaultAppend(d, items[1][1], items[1][2]), Tail(items))

\* SimpleQueryStringBuilder.get_filters_as_dict
GetFiltersAsDict(node) ==
    LET it == Iterate(node)
    IN  IF it.raised # NoExc THEN [raised |-> it.raised, d |-> EmptyDict]
        ELSE [raised |-> NoExc, d |-> Collect(EmptyDict, it.items)]

\* r.update(other)
RECURSIVE Update(_, _, _)
Update(r, keys, val) ==
    IF keys = << >> THEN r
    ELSE Update([keys |-> IF keys[1] \in DOMAIN r.val THEN r.keys
                          ELSE Append(r.keys, keys[1]),
                 val |-> [k \in (DOMAIN r.val) \cup {keys[1]} |->
                            IF k = keys[1] THEN val[k] ELSE r.val[k]]],
                Tail(keys), val)

\* QueryStringBuilder.build: get_orderings_as_dict is defined nowhere, so a
\* non-empty orderings raises AttributeError
Build(node, orderings) ==
    LET f == IF node # NoNode THEN GetFiltersAsDict(node)
             ELSE [raised |-> NoExc, d |-> EmptyDict]
    IN  IF f.raised # NoExc THEN [raised |-> f.raised, d |-> EmptyDict]
        ELSE IF orderings # << >>
        THEN [raised |-> Raise("AttributeError", NoNode), d |-> EmptyDict]
        ELSE [raised |-> NoExc, d |-> Update(EmptyDict, f.d.keys, f.d.val)]

----------------------------------------------------------------------------
(* lifter/backends/http.py: RESTStore *)

\* RESTStore.build_querystring
BuildQuerystring(q) ==
    IF q.filters # NoNode
    THEN LET b == Build(q.filters, q.orderings)
         IN  IF b.raised # NoExc THEN b
             ELSE [raised |-> NoExc, d |-> Update(EmptyDict, b.d.keys, b.d.val)]
    ELSE [raised |-> NoExc, d |-> EmptyDict]

\* RESTStore.convert_attribute_names_out: a dict comprehension, so of two keys
\* converted to the same name the later one's value stays
ConvertAttributeNamesOut(qs) ==
    Update(EmptyDict,
           [i \in 1..Len(qs.keys) |-> ToCamelCase(qs.keys[i])],
           [k \in {ToCamelCase(qs.keys[i]) : i \in 1..Len(qs.keys)} |->
               LET i == CHOOSE j \in 1..Len(qs.keys) :
                            /\ ToCamelCase(qs.keys[j]) = k
                            /\ \A h \in (j + 1)..Len(qs.keys) :
                                   ToCamelCase(qs.keys[h]) # k
               IN  qs.val[qs.keys[i]]])

\* RESTStore.build_request: the querystring built and, converted, the
\* parameters of the prepared request
BuildRequest(q) ==
    LET qs == BuildQuerystring(q)
    IN  IF qs.raised # NoExc
        THEN [raised |-> qs.raised, qs |-> EmptyDict, d |-> EmptyDict]
        ELSE [raised |-> NoExc, qs |-> qs.d, d |-> ConvertAttributeNamesOut(qs.d)]

\* the bounds of the status classes in RESTStore.parse_response
ClientError == 400
ServerError == 500
\* requests' raise_for_status raises HTTPError for a status from 400 to 599
HTTPErrorEnd == 600

\* (mutant) parse_response takes 400 itself for no client error
ParseResponse_Above400(status) ==
    IF status >= ClientError /\ status < HTTPErrorEnd
    THEN IF status > ClientError /\ status < ServerError
         THEN [exc |-> "BadQuery", parsed |-> FALSE]
         ELSE IF status >= ServerError
         THEN [exc |-> "StoreError", parsed |-> FALSE]
         ELSE [exc |-> "", parsed |-> TRUE]
    ELSE [exc |-> "", parsed |-> TRUE]

\* RESTStore.parse_response: the exception raised, if any, and whether the
\* body was parsed
ParseResponse(status) ==
    IF status >= ClientError /\ status < HTTPErrorEnd
    THEN IF status >= ClientError /\ status < ServerError
         THEN [exc |-> "BadQuery", parsed |-> FALSE]
         ELSE IF status >= ServerError
         THEN [exc |-> "StoreError", parsed |-> FALSE]
         ELSE [exc |-> "", parsed |-> TRUE]
    ELSE [exc |-> "", parsed |-> TRUE]

\* what handle_select did: the exception raised (exc) with the node it
\* carries, whether a request was built, and then the querystring (qs) and
\* the parameters of the request (params), the number of requests sent, the
\* status answered and whether rows came back
Outcome(op, raised, built, req, sent, status, rows) ==
    [op |-> op, exc |-> raised.exc, node |-> raised.node, built |-> built,
     qs |-> req.qs, params |-> req.d, sent |-> sent, status |-> status,
     rows |-> rows]

NoRequest == [raised |-> NoExc, qs |-> EmptyDict, d |-> EmptyDict]

\* RESTStore.handle_select, the server answering with status
HandleSelect(q, status) ==
    LET req == BuildRequest(q)
        resp == ParseResponse(status)
    IN  IF req.raised # NoExc
        THEN Outcome("select", req.raised, FALSE, NoRequest, 0, 0, FALSE)
        ELSE Outcome("select", Raise(resp.exc, NoNode), TRUE, req, 1, status,
                     resp.parsed)

\* the statuses a server answers with
Statuses == {200, 301, 399, 400, 404, 499, 500, 503, 599, 600}

\* the leaves the simple builder supports, and two it does not
FieldNames == {<<"a", "b">>, <<"a", "B">>, <<"a", "_", "b">>}
SupportedLeaves ==
    {Leaf(<<n>>, "eq", v, FALSE) : n \in FieldNames, v \in 1..MaxVal}
OtherLeaves ==
    {Leaf(<<<<"a", "b">>>>, "gt", 1, FALSE), Leaf(<<<<"a", "b">>>>, "eq", 1, TRUE)}
Leaves == SupportedLeaves \cup OtherLeaves

\* p & q, p | q and their negations
Wraps(left, right) ==
    {Wrap(o, <<l, r>>, i) : o \in {"AND", "OR"}, l \in left, r \in right,
                            i \in BOOLEAN}

\* filter trees of one to three levels
Trees1 == Wraps(Leaves, Leaves)
Trees2 == {And(l, r) : l \in Trees1, r \in Leaves}
              \cup {And(l, r) : l \in Leaves, r \in Trees1}
Trees == Leaves \cup Trees1 \cup Trees2

HttpIdle ==
    /\ hquery = [filters |-> NoNode, orderings |-> << >>]
    /\ hresult = Outcome("init", NoExc, FALSE, NoRequest, 0, 0, FALSE)

----------------------------------------------------------------------------
(* The cache on its own *)

\* the last operation: its name, its key, what it returned (ret) or raised
\* (exc), whether DummyCache._get was called (got) and whether the store's
\* medium was executed (ran)
Op(op, key, ret, exc, got, ran) ==
    [op |-> op, key |-> key, ret |-> ret, exc |-> exc, got |-> got, ran |-> ran]

CacheInit ==
    /\ enabled \in BOOLEAN
    /\ data = << >>
    /\ now = 0
    /\ default_timeout \in Timeouts
    /\ stack = << >>
    /\ togglers = << >>
    /\ written = << >>
    /\ last = Op("init", "", NoneVal, "", FALSE, FALSE)
    /\ HttpIdle
    /\ QueryIdle
    /\ StoreIdle
    /\ PureIdle

\* cache.get(key, default, reraise)
Get(key, reraise) ==
    LET r == CacheGet(enabled, data, now, key, NoneVal, reraise)
    IN  /\ data' = r.data
        /\ last' = Op("get", key, r.ret, r.exc, r.got, FALSE)
        /\ UNCHANGED <<enabled, now, default_timeout, stack, togglers, written>>
        /\ UNCHANGED <<httpVars, pureVars, queryVars, storeVars>>

\* the history after a set(key, value, timeout) that stored an entry at time t
Record(w, t, key, value, timeout) ==
    IF timeout.given /\ timeout.secs # NoTimeout
    THEN [k \in (DOMAIN w) \cup {key} |->
            IF k = key THEN [t0 |-> t, T |-> timeout.secs[1], value |-> value.v]
            ELSE w[k]]
    ELSE [k \in (DOMAIN w) \ {key} |-> w[k]]

\* cache.set(key, value, timeout)
Set(key, value, timeout) ==
    LET r == CacheSet(enabled, data, now, default_timeout, key, value, timeout)
    IN  /\ data' = r.data
        /\ written' = IF r.stored THEN Record(written, now, key, value, timeout)
                      ELSE written
        /\ last' = Op("set", key, r.ret, "", FALSE, FALSE)
        /\ UNCHANGED <<enabled, now, default_timeout, stack, togglers>>
        /\ UNCHANGED <<httpVars, pureVars, queryVars, storeVars>>

\* cache.get_or_set(key, value)
GetOrSet(key, value) ==
    LET r == CacheGetOrSet(enabled, data, now, default_timeout, key, value)
    IN  /\ data' = r.data
        /\ written' = IF r.stored THEN Record(written, now, key, value, NotSet)
                      ELSE written
        /\ last' = Op("get_or_set", key, r.ret, r.exc, r.got, FALSE)
        /\ UNCHANGED <<enabled, now, default_timeout, stack, togglers>>
        /\ UNCHANGED <<httpVars, pureVars, queryVars, storeVars>>

\* the clock behind get_now() advances
Tick ==
    /\ now < MaxTime
    /\ now' = now + 1
    /\ last' = Op("tick", "", NoneVal, "", FALSE, FALSE)
    /\ UNCHANGED <<enabled, data, default_timeout, stack, togglers, written>>
    /\ UNCHANGED <<httpVars, pureVars, queryVars, storeVars>>

\* with cache.enable(): / with cache.disable(): the toggler is created and
\* entered; the frame keeps, as history, the flag before the block
EnterScope(new_value) ==
    /\ Len(stack) < MaxDepth
    /\ LET tog == TogglerInit(enabled, new_value)
       IN  /\ enabled' = TogglerEnter(tog)
           /\ stack' = Append(stack, [tog |-> tog, before |-> enabled])
    /\ last' = Op("enter", "", NoneVal, "", FALSE, FALSE)
    /\ UNCHANGED <<data, now, default_timeout, togglers, written>>
    /\ UNCHANGED <<httpVars, pureVars, queryVars, storeVars>>

\* the innermost with-block ends, normally or by the exception exc
ExitScope(exc) ==
    /\ stack # << >>
    /\ enabled' = TogglerExit(Top(stack).tog)
    /\ stack' = Pop(stack)
    /\ last' = Op("exit", "", NoneVal, exc, FALSE, FALSE)
    /\ UNCHANGED <<data, now, default_timeout, togglers, written>>
    /\ UNCHANGED <<httpVars, pureVars, queryVars, storeVars>>

SetArgs == {Plain(v) : v \in Values} \cup {Callable(v) : v \in Values}
TimeoutArgs == {NotSet} \cup {Timeout(t) : t \in Timeouts}

\* a cache used without enable/disable scopes
CacheNext ==
    \/ \E k \in Keys, re \in BOOLEAN : Get(k, re)
    \/ \E k \in Keys, v \in SetArgs, t \in TimeoutArgs : Set(k, v, t)
    \/ \E k \in Keys, v \in SetArgs : GetOrSet(k, v)
    \/ Tick

SpecCache == CacheInit /\ [][CacheNext]_vars

\* one key, used inside and outside nested enable/disable scopes
ScopeKey == "k1"

ScopeNext ==
    \/ \E b \in BOOLEAN : EnterScope(b)
    \/ \E e \in {"", "Exception"} : ExitScope(e)
    \/ \E re \in BOOLEAN : Get(ScopeKey, re)
    \/ \E v \in SetArgs, t \in TimeoutArgs : Set(ScopeKey, v, t)
    \/ \E v \in SetArgs : GetOrSet(ScopeKey, v)
    \/ Tick

SpecScope == CacheInit /\ [][ScopeNext]_vars

\* two keys with short-lived entries, read and written while the clock
\* advances and the cache is enabled and disabled
EvictNext ==
    \/ \E k \in Keys, re \in BOOLEAN : Get(k, re)
    \/ \E k \in Keys : Set(k, Plain("v1"), Timeout(Secs(1)))
    \/ \E k \in Keys : GetOrSet(k, Plain("v2"))
    \/ Tick
    \/ \E b \in BOOLEAN : EnterScope(b)
    \/ ExitScope("")

SpecEvict == CacheInit /\ [][EvictNext]_vars

\* t = cache.enable() / t = cache.disable(): the toggler is created and kept;
\* made keeps, as history, the flag at that moment
CreateToggler(new_value) ==
    /\ Len(togglers) < MaxTogglers
    /\ togglers' = Append(togglers, [tog |-> TogglerInit(enabled, new_value),
                                     made |-> enabled])
    /\ last' = Op("create", "", NoneVal, "", FALSE, FALSE)
    /\ UNCHANGED <<enabled, data, now, default_timeout, stack, written>>
    /\ UNCHANGED <<httpVars, pureVars, queryVars, storeVars>>

\* with t: for a toggler created before, whether or not its block is open
\* already; the frame keeps, as history, the flag before the block
EnterToggler(i) ==
    /\ i \in 1..Len(togglers)
    /\ Len(stack) < MaxDepth
    /\ enabled' = TogglerEnter(togglers[i].tog)
    /\ stack' = Append(stack, [tog |-> togglers[i].tog, before |-> enabled,
                              made |-> togglers[i].made, id |-> i])
    /\ last' = Op("enter", "", NoneVal, "", FALSE, FALSE)
    /\ UNCHANGED <<data, now, default_timeout, togglers, written>>
    /\ UNCHANGED <<httpVars, pureVars, queryVars, storeVars>>

\* togglers created at one time and entered at another, any number of times
TogglerNext ==
    \/ \E b \in BOOLEAN : CreateToggler(b)
    \/ \E i \in 1..MaxTogglers : EnterToggler(i)
    \/ \E e \in {"", "Exception"} : ExitScope(e)

SpecToggler == CacheInit /\ [][TogglerNext]_vars

----------------------------------------------------------------------------
(* The remote backend on its own *)

CacheIdle ==
    /\ enabled = TRUE
    /\ data = << >>
    /\ now = 0
    /\ default_timeout = NoTimeout
    /\ stack = << >>
    /\ togglers = << >>
    /\ written = << >>
    /\ last = Op("init", "", NoneVal, "", FALSE, FALSE)

HttpInit ==
    /\ CacheIdle
    /\ QueryIdle
    /\ StoreIdle
    /\ PureIdle
    /\ hquery \in [filters : Trees \cup {NoNode},
                    orderings : {<< >>, <<Name("a")>>}]
    /\ hresult = Outcome("init", NoExc, FALSE, NoRequest, 0, 0, FALSE)

\* store.handle_select(query, model)
Select(status) ==
    /\ hresult.op = "init"
    /\ hresult' = HandleSelect(hquery, status)
    /\ UNCHANGED hquery
    /\ UNCHANGED <<cacheVars, queryVars, storeVars, pureVars>>

HttpNext == \E status \in Statuses : Select(status)

SpecHttp == HttpInit /\ [][HttpNext]_vars

----------------------------------------------------------------------------
(* Claims about the remote backend *)

\* a node the simple builder cannot express: inverted, a leaf whose lookup
\* is not eq, a composite whose operator is not AND
Offending(node) ==
    \/ node.inverted
    \/ node.kind = "leaf" /\ node.lookup # "eq"
    \/ node.kind = "wrap" /\ node.operator # "AND"

RECURSIVE NodesOf(_)
\* the nodes of a tree, at every depth
NodesOf(node) ==
    {node} \cup (IF node.kind = "wrap"
                 THEN UNION {NodesOf(node.subqueries[i]) :
                                i \in 1..Len(node.subqueries)}
                 ELSE {})

RECURSIVE LeavesOf(_)
\* the leaves of a tree, left to right, depth first
LeavesOf(node) ==
    IF node.kind = "leaf" THEN <<node>>
    ELSE IF node.subqueries = << >> THEN << >>
    ELSE LeavesOf(node.subqueries[1])
         \o LeavesOf([node EXCEPT !.subqueries = Tail(node.subqueries)])

\* the operands of the leaves on path key, in tree order
OperandsOn(node, key) ==
    LET OnKey(l) == PathStr(l.path) = key
        sel == SelectSeq(LeavesOf(node), OnKey)
    IN  [i \in 1..Len(sel) |-> sel[i].value]

\* C9: a select whose filter tree holds, at any depth, an inverted node, a
\* leaf whose lookup is not eq or a composite whose operator is not AND fails
\* with UnsupportedQuery carrying such a node of the tree; no querystring is
\* built and no request is sent.
C9_UnsupportedFails ==
    (/\ hresult.op = "select"
     /\ hquery.filters # NoNode
     /\ \E n \in NodesOf(hquery.filters) : Offending(n))
    => /\ hresult.exc = "UnsupportedQuery"
       /\ hresult.node \in NodesOf(hquery.filters)
       /\ Offending(hresult.node)
       /\ ~hresult.built
       /\ hresult.qs = EmptyDict
       /\ hresult.sent = 0

\* the select of a tree whose only unsupported node is an inverted leaf two
\* levels down has failed with that leaf
C9_Witness ==
    /\ hresult.op = "select"
    /\ hquery.filters.kind = "wrap"
    /\ hquery.filters.subqueries[1].kind = "wrap"
    /\ ~Offending(hquery.filters)
    /\ ~Offending(hquery.filters.subqueries[1])
    /\ hresult.exc = "UnsupportedQuery"
    /\ hresult.node.kind = "leaf"
    /\ hresult.node.inverted
    /\ hresult.node \in NodesOf(hquery.filters.subqueries[1])

\* C10: for a tree of eq leaves under AND composites, nothing inverted, the
\* querystring has one key per distinct path, and the list of each key holds
\* the operands of all the leaves on that path, one per leaf, in left-to-right
\* depth-first order.
C10_Accumulates ==
    (/\ hquery.filters # NoNode
     /\ \A n \in NodesOf(hquery.filters) : ~Offending(n))
    => LET tree == hquery.filters
           paths == {PathStr(LeavesOf(tree)[i].path) : i \in 1..Len(LeavesOf(tree))}
           f == GetFiltersAsDict(tree)
       IN  /\ f.raised = NoExc
           /\ DOMAIN f.d.val = paths
           /\ Len(f.d.keys) = Cardinality(paths)
           /\ {f.d.keys[i] : i \in 1..Len(f.d.keys)} = paths
           /\ \A k \in paths : f.d.val[k] = OperandsOn(tree, k)
           /\ (hresult.op = "select" /\ hquery.orderings = << >>)
                  => hresult.built /\ hresult.qs = f.d

\* a request was built from three leaves, two of them on the same path with
\* different operands
C10_Witness ==
    /\ hresult.op = "select"
    /\ hresult.built
    /\ hquery.filters # NoNode
    /\ Len(LeavesOf(hquery.filters)) = 3
    /\ Len(hresult.qs.keys) = 2
    /\ \E k \in DOMAIN hresult.qs.val :
          Len(hresult.qs.val[k]) = 2 /\ hresult.qs.val[k][1] # hresult.qs.val[k][2]

----------------------------------------------------------------------------
(* The in-memory store queried through a QuerySet: flat records *)

\* records with the fields a and order, as mappings or as objects
Orders == {1, 2}
FlatFields == [a : {Num(n) : n \in 1..MaxVal}, order : {Num(n) : n \in Orders}]
DictRecords == {Dict(f) : f \in FlatFields}
ObjRecords == {Obj(f) : f \in FlatFields}

\* the conditions: p on a, q on order
PConds == {Leaf(<<"a">>, "eq", Num(n), FALSE) : n \in 1..MaxVal}
              \cup {Leaf(<<"a">>, "gt", Num(1), FALSE)}
QConds == {Leaf(<<"order">>, l, Num(n), FALSE) : l \in {"eq", "gt"}, n \in Orders}

QueryInit ==
    /\ CacheIdle
    /\ HttpIdle
    /\ StoreIdle
    /\ PureIdle
    /\ objects \in SeqsUpTo(DictRecords, MaxRecs) \cup SeqsUpTo(ObjRecords, MaxRecs)
    /\ conds \in [p : PConds, q : QConds]
    /\ qresult = [op |-> "init", exc |-> "", rows |-> << >>]

\* the ways of writing a filter of p and q
FilterForm(form, p, q) ==
    CASE form = "and" -> QFilter(AllQuery, <<And(p, q)>>)
      [] form = "chain" -> QFilter(QFilter(AllQuery, <<p>>), <<q>>)
      [] form = "args" -> QFilter(AllQuery, <<p, q>>)
      [] form = "or" -> QFilter(AllQuery, <<Or(p, q)>>)
      [] form = "not" -> QFilter(AllQuery, <<Invert(p)>>)
      [] form = "notnot" -> QFilter(AllQuery, <<Invert(Invert(p))>>)
      [] form = "one" -> QFilter(AllQuery, <<p>>)

\* the ways of writing an exclude of p and q
ExcludeForm(form, p, q) ==
    CASE form = "one" -> QExclude(AllQuery, <<p>>)
      [] form = "args" -> QExclude(AllQuery, <<p, q>>)
      [] form = "and" -> QExclude(AllQuery, <<And(p, q)>>)

FilterForms == {"and", "chain", "args", "or", "not", "notnot", "one"}
ExcludeForms == {"one", "args", "and"}

Returned(op, r) == [op |-> op, exc |-> r.exc, rows |-> r.rows]

\* list(manager.filter(...)), in one of its forms
Filter(form) ==
    /\ qresult.op = "init"
    /\ \E r \in {StoreSelect(objects, FilterForm(form, conds.p, conds.q))} :
           qresult' = Returned("filter", r)
    /\ UNCHANGED <<objects, conds>>
    /\ UNCHANGED <<cacheVars, httpVars, pureVars, storeVars>>

\* list(manager.exclude(...)), in one of its forms
Exclude(form) ==
    /\ qresult.op = "init"
    /\ \E r \in {StoreSelect(objects, ExcludeForm(form, conds.p, conds.q))} :
           qresult' = Returned("exclude", r)
    /\ UNCHANGED <<objects, conds>>
    /\ UNCHANGED <<cacheVars, httpVars, pureVars, storeVars>>

\* manager.all().get(p) and manager.all().get(p, q)
GetOne(cs) ==
    /\ qresult.op = "init"
    /\ \E r \in {QGet(objects, AllQuery, cs)} : qresult' = Returned("get", r)
    /\ UNCHANGED <<objects, conds>>
    /\ UNCHANGED <<cacheVars, httpVars, pureVars, storeVars>>

QueryNext ==
    \/ \E form \in FilterForms : Filter(form)
    \/ \E form \in ExcludeForms : Exclude(form)
    \/ \E cs \in {<<conds.p>>, <<conds.p, conds.q>>} : GetOne(cs)

SpecQuery == QueryInit /\ [][QueryNext]_vars

----------------------------------------------------------------------------
(* The in-memory store queried through a QuerySet: nested collections *)

\* records holding a list of tags, a tag holding a name, or a name and a
\* list of subtags, or neither
TagNames == {1, 2}
Wanted == {1, 2, 3}
SubTags == {Dict([name |-> Num(n)]) : n \in TagNames}
SubTagLists == SeqsUpTo(SubTags, MaxSub)
Tags == {Dict([name |-> Num(n)]) : n \in TagNames}
            \cup {Dict([other |-> Num(1)])}
            \cup {Dict([name |-> Num(1), subtags |-> List(l)]) : l \in SubTagLists}
TagLists == SeqsUpTo(Tags, MaxTags)
NestedPaths == {<<"tags", "name">>, <<"tags", "subtags", "name">>}
NestedConds == {Leaf(path, "eq", Num(x), FALSE) : path \in NestedPaths, x \in Wanted}

NestedInit ==
    /\ CacheIdle
    /\ HttpIdle
    /\ StoreIdle
    /\ PureIdle
    /\ objects \in {<<Dict([name |-> Num(1), tags |-> List(l)])>> : l \in TagLists}
    /\ conds \in {[p |-> c, q |-> c] : c \in NestedConds}
    /\ qresult = [op |-> "init", exc |-> "", rows |-> << >>]

NestedNext == Filter("one") \/ Exclude("one")

SpecNested == NestedInit /\ [][NestedNext]_vars

----------------------------------------------------------------------------
(* The store that caches what it executes *)

\* IterableStore(objects, identifier='test', cache=cache) queried for TModel
StoreIdentifier == "test"
AppName == "test"
ModelName == "test_model"

\* a query with its action
ActionQuery(action, filters) ==
    [action |-> action, filters |-> filters, orderings |-> << >>]

\* store.hash_query(query): a string that tells the queries apart
HashQuery(query) ==
    query.action \o "/" \o
    (IF query.filters = NoNode THEN "None"
     ELSE query.filters.path[1] \o "__" \o query.filters.lookup \o "="
              \o ToString(query.filters.value.v))

\* store.get_cache_key(query, model)
GetCacheKey(query) ==
    StoreIdentifier \o ":" \o AppName \o ":" \o ModelName \o ":" \o HashQuery(query)

RECURSIVE ReprRows(_)
\* the records of a result written out, a record as a/order
ReprRows(rows) ==
    IF rows = << >> THEN ""
    ELSE ToString(rows[1].f.a.v) \o "/" \o ToString(rows[1].f.order.v) \o ";"
             \o ReprRows(Tail(rows))

\* the query executed against the medium: the result written out, or the
\* exception of a medium that fails
RunMedium(coll, fails, query) ==
    IF fails THEN [exc |-> "MediumError", ret |-> NoneVal]
    ELSE Only({IF r.exc # "" THEN [exc |-> r.exc, ret |-> NoneVal]
               ELSE IF query.action = "count"
               THEN [exc |-> "", ret |-> ToString(Len(r.rows))]
               ELSE [exc |-> "", ret |-> "[" \o ReprRows(r.rows) \o "]"] :
                  r \in {StoreSelect(coll, query)}})

\* (mutant) the store executes the medium without storing the result
Execute_NoStore(en, d, t, dflt, coll, fails, query) ==
    Only({IF g.exc = ""
          THEN [key |-> key, exc |-> "", ret |-> g.ret, data |-> g.data,
                got |-> g.got, ran |-> FALSE, stored |-> FALSE]
          ELSE Only({[key |-> key, exc |-> m.exc, ret |-> m.ret, data |-> g.data,
                      got |-> g.got, ran |-> TRUE, stored |-> FALSE] :
                        m \in {RunMedium(coll, fails, query)}}) :
             key \in {GetCacheKey(query)},
             g \in {CacheGet(en, d, t, GetCacheKey(query), NoneVal, TRUE)}})

\* the store executing a query: the cache is asked first; on NotInCache or
\* DisabledCache the medium is executed and its result handed to cache.set
Execute(en, d, t, dflt, coll, fails, query) ==
    Only({IF g.exc = ""
          THEN [key |-> key, exc |-> "", ret |-> g.ret, data |-> g.data,
                got |-> g.got, ran |-> FALSE, stored |-> FALSE]
          ELSE Only({IF m.exc # ""
                     THEN [key |-> key, exc |-> m.exc, ret |-> NoneVal,
                           data |-> g.data, got |-> g.got, ran |-> TRUE,
                           stored |-> FALSE]
                     ELSE Only({[key |-> key, exc |-> "", ret |-> m.ret,
                                 data |-> s.data, got |-> g.got, ran |-> TRUE,
                                 stored |-> s.stored] :
                                   s \in {CacheSet(en, g.data, t, dflt, key,
                                                   Plain(m.ret), NotSet)}}) :
                        m \in {RunMedium(coll, fails, query)}}) :
             key \in {GetCacheKey(query)},
             g \in {CacheGet(en, d, t, GetCacheKey(query), NoneVal, TRUE)}})

\* manager.count() and manager.filter(a == 1)
StoreQueries ==
    {ActionQuery("count", NoNode),
     ActionQuery("select", Leaf(<<"a">>, "eq", Num(1), FALSE))}

\* the collections the store is built on
StoreRecord(a, order) == Dict([a |-> Num(a), order |-> Num(order)])
StoreCollections ==
    {<<StoreRecord(1, 2)>>, <<StoreRecord(1, 2), StoreRecord(2, 1)>>}

StoreInit ==
    /\ enabled = TRUE
    /\ data = << >>
    /\ now = 0
    /\ default_timeout \in Timeouts
    /\ stack = << >>
    /\ togglers = << >>
    /\ written = << >>
    /\ last = Op("init", "", NoneVal, "", FALSE, FALSE)
    /\ HttpIdle
    /\ objects \in StoreCollections
    /\ conds = [p |-> NoNode, q |-> NoNode]
    /\ qresult = [op |-> "init", exc |-> "", rows |-> << >>]
    /\ broken = FALSE
    /\ qsets = << >>
    /\ PureIdle

\* store.execute(query, model)
ExecuteQuery(query) ==
    \E e \in {Execute(enabled, data, now, default_timeout, objects, broken, query)} :
        /\ data' = e.data
        /\ last' = Op("execute", e.key, e.ret, e.exc, e.got, e.ran)
        /\ UNCHANGED <<enabled, now, default_timeout, stack, togglers, written>>
        /\ UNCHANGED <<httpVars, pureVars, queryVars, storeVars>>

\* the medium starts or stops failing
Break ==
    /\ broken' = ~broken
    /\ last' = Op("medium", "", NoneVal, "", FALSE, FALSE)
    /\ UNCHANGED <<enabled, data, now, default_timeout, stack, togglers, written>>
    /\ UNCHANGED <<httpVars, pureVars, queryVars, qsets>>

StoreNext ==
    \/ \E q \in StoreQueries : ExecuteQuery(q)
    \/ Break
    \/ \E b \in BOOLEAN : EnterScope(b)
    \/ \E e \in {"", "Exception"} : ExitScope(e)
    \/ Tick

SpecStore == StoreInit /\ [][StoreNext]_vars

----------------------------------------------------------------------------
(* The lazy QuerySet *)

Bool(b) == [t |-> "bool", v |-> b]

\* a QuerySet as built: not populated, no data; execs counts the executions
\* against the backend made for it, obs the observations made of it
NewQuerySet(query) ==
    [query |-> query, populated |-> FALSE, data |-> << >>, execs |-> 0, obs |-> 0]

\* (mutant) _fetch_all executes the query whether or not data is memoized
FetchAll_Always(qs, coll) ==
    Only({[qs EXCEPT !.populated = (r.exc = ""), !.data = r.rows, !.execs = @ + 1] :
             r \in {StoreSelect(coll, qs.query)}})

\* QuerySet._fetch_all: the query is executed unless the data is memoized
FetchAll(qs, coll) ==
    IF qs.populated THEN qs
    ELSE Only({[qs EXCEPT !.populated = (r.exc = ""), !.data = r.rows,
                          !.execs = @ + 1] :
                  r \in {StoreSelect(coll, qs.query)}})

\* what an observation of a populated QuerySet answers: list(qs), len(qs),
\* qs[0], qs == other
Answer(qs, kind, other) ==
    CASE kind = "iter" -> [exc |-> "", rows |-> qs.data]
      [] kind = "len" -> [exc |-> "", rows |-> <<Num(Len(qs.data))>>]
      [] kind = "index" -> IF qs.data = << >> THEN [exc |-> "IndexError", rows |-> << >>]
                           ELSE [exc |-> "", rows |-> <<qs.data[1]>>]
      [] kind = "eq" -> [exc |-> "", rows |-> <<Bool(qs.data = other)>>]

ObservationKinds == {"iter", "len", "index", "eq"}
BuildKinds == {"filter", "exclude", "order_by"}

\* the query of the QuerySet that parent.filter(p), parent.exclude(q) or
\* parent.order_by(-order) returns
Extend(query, kind, p, q) ==
    CASE kind = "filter" -> QFilter(query, <<p>>)
      [] kind = "exclude" -> QExclude(query, <<q>>)
      [] kind = "order_by" -> QOrderBy(query, <<Ordering(<<"order">>, TRUE)>>)

\* the collections of the tests, as mappings and as objects
LazyFields == <<[a |-> Num(1), order |-> Num(2)], [a |-> Num(2), order |-> Num(1)],
                [a |-> Num(1), order |-> Num(1)]>>
LazyCollections ==
    {[i \in 1..3 |-> Dict(LazyFields[i])], [i \in 1..3 |-> Obj(LazyFields[i])]}

LazyInit ==
    /\ CacheIdle
    /\ HttpIdle
    /\ objects \in LazyCollections
    /\ conds = [p |-> Leaf(<<"a">>, "eq", Num(1), FALSE),
                q |-> Leaf(<<"order">>, "gt", Num(1), FALSE)]
    /\ qresult = [op |-> "init", exc |-> "", rows |-> << >>]
    /\ broken = FALSE
    /\ qsets = << >>
    /\ PureIdle

\* manager.filter(...) and the like (parent = 0), or the same called on the
\* QuerySet parent: a new QuerySet, nothing executed
BuildQS(parent, kind) ==
    /\ Len(qsets) < MaxQS
    /\ qsets' = Append(qsets,
                       NewQuerySet(Extend(IF parent = 0 THEN AllQuery
                                          ELSE qsets[parent].query,
                                          kind, conds.p, conds.q)))
    /\ qresult' = [op |-> "build", exc |-> "", rows |-> << >>]
    /\ UNCHANGED <<objects, conds, broken>>
    /\ UNCHANGED <<cacheVars, httpVars, pureVars>>

\* an observation of the QuerySet i: _fetch_all, then the answer from _data
Observe(i, kind) ==
    /\ qsets[i].obs < MaxObs
    /\ \E f \in {FetchAll(qsets[i], objects)} :
           /\ qsets' = [qsets EXCEPT ![i] = [f EXCEPT !.obs = @ + 1]]
           /\ \E a \in {Answer(f, kind, objects)} :
                  qresult' = [op |-> kind, exc |-> a.exc, rows |-> a.rows]
    /\ UNCHANGED <<objects, conds, broken>>
    /\ UNCHANGED <<cacheVars, httpVars, pureVars>>

LazyNext ==
    \/ \E parent \in 0..Len(qsets), kind \in BuildKinds : BuildQS(parent, kind)
    \/ \E i \in 1..Len(qsets), kind \in ObservationKinds : Observe(i, kind)

SpecLazy == LazyInit /\ [][LazyNext]_vars

----------------------------------------------------------------------------
(* Claims about the QuerySet over the in-memory store *)

\* a leaf on a field of a flat record, read off the record directly
Holds(p, r) ==
    IF p.lookup = "eq" THEN r.f[p.path[1]] = p.value
    ELSE r.f[p.path[1]].v > p.value.v

RowsOf(query) == StoreSelect(objects, query)
Exactly(rows) == [exc |-> "", rows |-> rows]

\* C6: filter(p & q), filter(p).filter(q) and filter(p, q) return exactly the
\* records satisfying both conditions, filter(p | q) those satisfying at least
\* one, filter(~p) and exclude(p) the records not satisfying p, exclude(p, q)
\* the records not satisfying both, filter(~~p) the records satisfying p, all
\* in the order of the collection; and the operation that ran returned one of
\* these.
C6_FilterAlgebra ==
    LET p == conds.p
        q == conds.q
        both == SelectSeq(objects, LAMBDA r : Holds(p, r) /\ Holds(q, r))
        either == SelectSeq(objects, LAMBDA r : Holds(p, r) \/ Holds(q, r))
        onlyp == SelectSeq(objects, LAMBDA r : Holds(p, r))
        notp == SelectSeq(objects, LAMBDA r : ~Holds(p, r))
        notboth == SelectSeq(objects, LAMBDA r : ~(Holds(p, r) /\ Holds(q, r)))
    IN  /\ \A form \in {"and", "chain", "args"} :
               RowsOf(FilterForm(form, p, q)) = Exactly(both)
        /\ RowsOf(FilterForm("or", p, q)) = Exactly(either)
        /\ RowsOf(FilterForm("not", p, q)) = Exactly(notp)
        /\ RowsOf(ExcludeForm("one", p, q)) = Exactly(notp)
        /\ RowsOf(ExcludeForm("args", p, q)) = Exactly(notboth)
        /\ RowsOf(ExcludeForm("and", p, q)) = Exactly(notboth)
        /\ RowsOf(FilterForm("notnot", p, q)) = Exactly(onlyp)
        /\ RowsOf(FilterForm("one", p, q)) = Exactly(onlyp)
        /\ qresult.op = "filter" =>
               /\ qresult.exc = ""
               /\ qresult.rows \in {both, either, notp, onlyp}
        /\ qresult.op = "exclude" =>
               /\ qresult.exc = ""
               /\ qresult.rows \in {notp, notboth}

\* an exclude of two conditions ran on two records, one satisfying both and
\* one satisfying p alone, and kept the second
C6_Witness ==
    /\ qresult.op = "exclude"
    /\ Len(objects) = 2
    /\ Holds(conds.p, objects[1]) /\ Holds(conds.q, objects[1])
    /\ Holds(conds.p, objects[2]) /\ ~Holds(conds.q, objects[2])
    /\ qresult.rows = <<objects[2]>>

\* the positions of the records satisfying every condition of cs
Satisfying(cs) ==
    {i \in 1..Len(objects) : \A k \in 1..Len(cs) : Holds(cs[k], objects[i])}

\* what get(*cs) owes its caller
Owed(cs) ==
    IF Cardinality(Satisfying(cs)) = 0
    THEN [exc |-> "DoesNotExist", rows |-> << >>]
    ELSE IF Cardinality(Satisfying(cs)) > 1
    THEN [exc |-> "MultipleObjectsReturned", rows |-> << >>]
    ELSE [exc |-> "", rows |-> <<objects[CHOOSE i \in Satisfying(cs) : TRUE]>>]

\* C8: get(*conditions) returns the record when exactly one record satisfies
\* all the conditions, raises DoesNotExist when none does and
\* MultipleObjectsReturned when two or more do.
C8_GetCardinality ==
    /\ \A cs \in {<<conds.p>>, <<conds.p, conds.q>>} :
           QGet(objects, AllQuery, cs) = Owed(cs)
    /\ qresult.op = "get" =>
           \E cs \in {<<conds.p>>, <<conds.p, conds.q>>} :
               qresult = Returned("get", Owed(cs))

\* get(p) ran on two different records that both satisfy p, and raised
C8_Witness ==
    /\ qresult.op = "get"
    /\ qresult.exc = "MultipleObjectsReturned"
    /\ Len(objects) = 2
    /\ objects[1] # objects[2]
    /\ Satisfying(<<conds.p>>) = {1, 2}
    /\ Satisfying(<<conds.p, conds.q>>) = {2}

\* the elements at the end of the path, read off the record directly
DeepMatch(r, path, x) ==
    LET tags == r.f.tags.items
    IN  IF path = <<"tags", "name">>
        THEN \E i \in 1..Len(tags) :
                 "name" \in DOMAIN tags[i].f /\ tags[i].f.name = x
        ELSE \E i \in 1..Len(tags) :
                 /\ "subtags" \in DOMAIN tags[i].f
                 /\ \E j \in 1..Len(tags[i].f.subtags.items) :
                        tags[i].f.subtags.items[j].f.name = x

\* C7: filter(path == X) on records holding nested collections returns a
\* record if and only if at least one element at the end of the path equals
\* X, and raises nothing when none does: the view the path resolves to
\* passes the test, and compares equal to X, exactly when such an element
\* exists.
C7_Existential ==
    LET p == conds.p
        expected == SelectSeq(objects, LAMBDA r : DeepMatch(r, p.path, p.value))
    IN  /\ \A i \in 1..Len(objects) :
               LET view == ResolvePath(objects[i], p.path)
                   match == DeepMatch(objects[i], p.path, p.value)
               IN  /\ view.ok
                   /\ view.v.t = "iattr"
                   /\ ResolveTest(view.v, "eq", p.value) = [exc |-> "", v |-> match]
                   /\ IterableAttrEq(view.v, p.value) = match
        /\ RowsOf(FilterForm("one", p, p)) = Exactly(expected)
        /\ qresult.op = "filter" => qresult = Returned("filter", Exactly(expected))

\* a filter on tags.subtags.name ran on a record whose first tag holds a
\* subtag that does not match and whose second tag holds one that does
C7_Witness ==
    /\ qresult.op = "filter"
    /\ conds.p.path = <<"tags", "subtags", "name">>
    /\ LET tags == objects[1].f.tags.items
       IN  /\ Len(tags) = 2
           /\ \A i \in 1..2 : "subtags" \in DOMAIN tags[i].f
           /\ Len(tags[1].f.subtags.items) = 1
           /\ tags[1].f.subtags.items[1].f.name # conds.p.value
           /\ Len(tags[2].f.subtags.items) = 2
           /\ tags[2].f.subtags.items[1].f.name # conds.p.value
           /\ tags[2].f.subtags.items[2].f.name = conds.p.value
    /\ qresult.rows = objects

----------------------------------------------------------------------------
(* Claims about the cache *)

\* C2: a value written with set(key, value, T) at clock time t0 on an enabled
\* cache is returned by get(key) while the clock reads less than t0+T, and
\* get(key) returns the default once the clock reads t0+T or more, t0+T
\* itself included.
C2_TTLBoundary ==
    \A k \in DOMAIN written :
        LET w == written[k]
            r == CacheGet(TRUE, data, now, k, NoneVal, FALSE)
        IN  IF now < w.t0 + w.T THEN r.ret = w.value ELSE r.ret = NoneVal

\* C5: inside a with-block the flag is the block's value; when a block is
\* left, normally or by an exception, the flag is the enclosing block's
\* value, or, for the outermost block, the flag from before it was entered.
C5_InsideScope ==
    stack # << >> => enabled = Top(stack).tog.new_value

C5_LeaveScope ==
    Len(stack') < Len(stack) =>
        enabled' = IF stack' # << >> THEN Top(stack').tog.new_value
                   ELSE stack[1].before

C5_ScopedFlag == [](C5_InsideScope) /\ [][C5_LeaveScope]_vars

\* an inner block that changed the flag was left by an exception, and the
\* flag is the enclosing block's value again
C5_Witness ==
    /\ last.op = "exit"
    /\ last.exc = "Exception"
    /\ Len(stack) = 1
    /\ stack[1].tog.new_value # stack[1].before
    /\ enabled = stack[1].tog.new_value

----------------------------------------------------------------------------
(* Claims about the store that caches what it executes *)

\* the key the claim spells out
KeyOf(q) == "test:test:test_model:" \o HashQuery(q)

\* an entry is stored under key and has not expired
Fresh(d, key) ==
    /\ key \in DOMAIN d
    /\ \/ d[key].expires_on = NoTimeout
       \/ ~(d[key].expires_on[1] < now)

\* C3: with the cache enabled, executing a query looks up the key
\* <store_identifier>:<model_app_name>:<model_name>:<query_hash>; on a hit the
\* cached result is returned and the medium is not executed; on a miss the
\* medium is executed and its result stored under the key before it is
\* returned, so that the same query executed again returns the same result
\* without the medium, even when the medium now fails.
C3_CacheFirst ==
    /\ \A q \in StoreQueries :
           LET key == KeyOf(q)
               e == Execute(enabled, data, now, default_timeout, objects, broken, q)
               direct == RunMedium(objects, broken, q)
               again == Execute(enabled, e.data, now, default_timeout, objects, TRUE, q)
           IN  enabled =>
                 /\ e.key = key
                 /\ e.got
                 /\ IF Fresh(data, key)
                    THEN /\ e.exc = ""
                         /\ e.ret = data[key].value
                         /\ ~e.ran
                         /\ e.data = data
                    ELSE /\ e.ran
                         /\ IF broken
                            THEN /\ e.exc = "MediumError"
                                 /\ key \notin DOMAIN e.data
                            ELSE /\ e.exc = ""
                                 /\ e.ret = direct.ret
                                 /\ Fresh(e.data, key)
                                 /\ e.data[key].value = e.ret
                                 /\ again.exc = ""
                                 /\ again.ret = e.ret
                                 /\ ~again.ran
    /\ (last.op = "execute" /\ enabled) =>
           /\ last.key \in {KeyOf(q) : q \in StoreQueries}
           /\ last.got
           /\ last.exc = "" => (Fresh(data, last.key) /\ data[last.key].value = last.ret)

\* a query was answered from the cache while the medium fails
C3_Witness ==
    /\ last.op = "execute"
    /\ enabled
    /\ broken
    /\ last.exc = ""
    /\ ~last.ran
    /\ \E q \in StoreQueries :
           /\ last.key = KeyOf(q)
           /\ last.ret = RunMedium(objects, FALSE, q).ret
           /\ RunMedium(objects, broken, q).exc = "MediumError"

\* while the cache is disabled, an execution runs the medium, calls neither
\* _get nor _set and leaves the entries as they are
C4_Bypass ==
    ~enabled =>
        /\ \A q \in StoreQueries :
               LET e == Execute(enabled, data, now, default_timeout, objects, broken, q)
               IN  /\ e.ran
                   /\ ~e.got
                   /\ ~e.stored
                   /\ e.data = data
                   /\ ~broken => (e.exc = "" /\ e.ret = RunMedium(objects, FALSE, q).ret)
        /\ \A q \in StoreQueries, re \in BOOLEAN :
               LET g == CacheGet(enabled, data, now, KeyOf(q), NoneVal, re)
                   w == CacheSet(enabled, data, now, default_timeout, KeyOf(q),
                                 Plain("v1"), NotSet)
               IN  ~g.got /\ g.data = data /\ ~w.stored /\ w.data = data
        /\ last.op = "execute" => (last.ran /\ ~last.got)

\* a step taken while the cache is disabled leaves the entries as they are
C4_EntriesKept == ~enabled => data' = data

\* C4: inside a cache.disable() scope every execution of a query runs the
\* backend, the entries are neither read (_get is not called) nor written,
\* and from the start of the scope to its end the entries stay what they were.
C4_DisabledScope == [](C4_Bypass) /\ [][C4_EntriesKept]_vars

\* inside a disable scope a query whose result is cached was executed
\* against the medium
C4_Witness ==
    /\ stack # << >>
    /\ Top(stack).tog.new_value = FALSE
    /\ ~enabled
    /\ last.op = "execute"
    /\ last.exc = ""
    /\ last.ran
    /\ Fresh(data, last.key)

----------------------------------------------------------------------------
(* Claims about the lazy QuerySet *)

\* a QuerySet never observed was never executed and holds no data; one that
\* was observed was executed exactly once and holds what the backend returns
\* for its query
C1_Memoized ==
    \A i \in 1..Len(qsets) :
        LET qs == qsets[i]
        IN  IF qs.obs = 0
            THEN ~qs.populated /\ qs.execs = 0 /\ qs.data = << >>
            ELSE /\ qs.populated
                 /\ qs.execs = 1
                 /\ qs.data = StoreSelect(objects, qs.query).rows

\* a step that builds a QuerySet executes nothing and leaves the others as
\* they were; a step on a populated QuerySet executes nothing
C1_NoExecution ==
    /\ Len(qsets') > Len(qsets) =>
           /\ SubSeq(qsets', 1, Len(qsets)) = qsets
           /\ qsets'[Len(qsets')].execs = 0
           /\ ~qsets'[Len(qsets')].populated
    /\ \A i \in 1..Len(qsets) :
           qsets[i].populated =>
               /\ qsets'[i].execs = qsets[i].execs
               /\ qsets'[i].data = qsets[i].data

\* C1: building a chain of filter/exclude/order_by executes nothing; the
\* first observation of a QuerySet executes its query exactly once; every
\* later observation is answered from the memoized data with no execution.
C1_Lazy == [](C1_Memoized) /\ [][C1_NoExecution]_vars

\* a QuerySet built from another by a second call was observed twice, and
\* the one it was built from never
C1_Witness ==
    /\ Len(qsets) = 2
    /\ qsets[1].obs = 0
    /\ qsets[2].obs = 2
    /\ qsets[2].execs = 1
    /\ qsets[2].query.filters # NoNode
    /\ qsets[2].query.orderings # << >>
    /\ qresult.op = "iter"
    /\ qresult.rows = qsets[2].data
    /\ qresult.rows # << >>

----------------------------------------------------------------------------
(* resolve_attr called on its own *)

\* records and values of every kind, with falsy and empty values under a key
\* or an attribute
ResolveValues ==
    {Num(n) : n \in 0..MaxVal}
      \cup {List(<< >>), List(<<Dict([a |-> Num(1)])>>),
            List(<<Dict([a |-> Num(1)]), Dict([b |-> Num(2)])>>)}
      \cup {Dict([a |-> v]) : v \in {Num(0), Num(1), List(<< >>)}}
      \cup {Dict([items |-> Num(1)]), Dict([b |-> Num(1)])}
      \cup {Obj([a |-> v]) : v \in {Num(0), List(<< >>)}}
      \cup {Obj([b |-> Num(1)])}
      \cup {IterableAttr(<<Dict([a |-> Dict([a |-> Num(1)])])>>, "a")}
ResolveNames == {"a", "b", "count", "items"}

ResolveInit ==
    /\ CacheIdle
    /\ HttpIdle
    /\ QueryIdle
    /\ StoreIdle
    /\ arg \in {[op |-> "resolve", obj |-> v, name |-> n] :
                    v \in ResolveValues, n \in ResolveNames}
    /\ res = NoCall

\* resolve_attr(obj, name)
Resolve ==
    /\ res = NoCall
    /\ res' = [op |-> "resolve", out |-> ResolveAttr(arg.obj, arg.name)]
    /\ UNCHANGED arg
    /\ UNCHANGED <<cacheVars, httpVars, queryVars, storeVars>>

SpecResolve == ResolveInit /\ [][Resolve]_vars

\* the four steps, each on its own: whether it applies to (obj, name)
Keyed(obj, name) == obj.t = "iattr" \/ (obj.t = "dict" /\ name \in DOMAIN obj.f)
OwnAttr(obj, name) == obj.t = "obj" /\ name \in DOMAIN obj.f
ClassAttr(obj, name) == name \in ClassAttrs(obj)
Wrappable(obj) == obj.t \in {"list", "dict"}

\* what the first step that applies gives for a record that is not a
\* mapping lacking the key
FirstSuccess(obj, name) ==
    IF Keyed(obj, name)
    THEN (IF obj.t = "dict" THEN Found(obj.f[name])
          ELSE Found(IterableAttr(Resolved(obj.items, obj.key), name)))
    ELSE IF OwnAttr(obj, name) THEN Found(obj.f[name])
    ELSE IF ClassAttr(obj, name) THEN Found(Method(name))
    ELSE IF obj.t = "list" THEN Found(IterableAttr(obj.items, name))
    ELSE Missing

\* a mapping that lacks the key
KeyMiss(obj, name) == obj.t = "dict" /\ name \notin DOMAIN obj.f

\* C11 as stated: the call fails with MissingField only when none of the four
\* steps applies, and otherwise returns what the first step that applies gives.
C11_Original ==
    res # NoCall =>
        /\ ~res.out.ok <=>
               ~(Keyed(arg.obj, arg.name) \/ OwnAttr(arg.obj, arg.name)
                   \/ ClassAttr(arg.obj, arg.name) \/ Wrappable(arg.obj))
        /\ ~KeyMiss(arg.obj, arg.name) => res.out = FirstSuccess(arg.obj, arg.name)

\* C11, amended: the steps are tried in the order keyed lookup, own attribute
\* table, generic attribute access, wrapping of an iterable, and the first
\* that succeeds gives the result, a present key winning whatever its value;
\* a mapping that lacks the key fails with MissingField at once; any other
\* record fails with MissingField only when no step applies.
C11_ResolveOrder ==
    res # NoCall =>
        IF KeyMiss(arg.obj, arg.name) THEN ~res.out.ok
        ELSE /\ res.out = FirstSuccess(arg.obj, arg.name)
             /\ ~res.out.ok <=>
                    ~(Keyed(arg.obj, arg.name) \/ OwnAttr(arg.obj, arg.name)
                        \/ ClassAttr(arg.obj, arg.name) \/ Wrappable(arg.obj))

\* a list asked for the name of one of its methods gave the method, not a view
C11_Witness ==
    /\ res # NoCall
    /\ arg.obj.t = "list"
    /\ arg.name = "count"
    /\ res.out = Found(Method("count"))

----------------------------------------------------------------------------
(* Filters on fields that records lack *)

\* flat records with or without the field x, as mappings and as objects, and
\* records holding tags with or without a name
WithX == {[name |-> Num(1), x |-> Num(n)] : n \in 1..MaxVal}
WithoutX == {[name |-> Num(1)]}
MissingTags == {Dict([name |-> Num(1)]), Dict([other |-> Num(1)])}
MissingCollections ==
    SeqsUpTo({Dict(f) : f \in WithX \cup WithoutX}, MaxRecs)
      \cup SeqsUpTo({Obj(f) : f \in WithX \cup WithoutX}, MaxRecs)
      \cup {<<Dict([name |-> Num(1), tags |-> List(l)])>> :
               l \in SeqsUpTo(MissingTags, MaxTags)}
MissingConds ==
    {Leaf(<<"x">>, "eq", Num(1), FALSE), Leaf(<<"x">>, "gt", Num(1), TRUE),
     Leaf(<<"x">>, "exists", Num(0), FALSE), Leaf(<<"x">>, "exists", Num(0), TRUE),
     Leaf(<<"tags", "name">>, "eq", Num(1), FALSE)}

MissingInit ==
    /\ CacheIdle
    /\ HttpIdle
    /\ StoreIdle
    /\ PureIdle
    /\ objects \in MissingCollections
    /\ conds \in {[p |-> c, q |-> c] : c \in MissingConds}
    /\ qresult = [op |-> "init", exc |-> "", rows |-> << >>]

SpecMissing == MissingInit /\ [][Filter("one")]_vars

\* the record has the field, read off the record directly
Has(r, name) == name \in DOMAIN r.f

\* the leaf on a record that has the leaf's first field, read off directly
HoldsOn(p, r) ==
    IF p.path = <<"tags", "name">>
    THEN \E j \in 1..Len(r.f.tags.items) :
             Has(r.f.tags.items[j], "name") /\ r.f.tags.items[j].f.name = p.value
    ELSE IF p.lookup = "eq" THEN (r.f.x = p.value) # p.inverted
    ELSE (r.f.x.v > p.value.v) # p.inverted

\* what the filter owes: MissingField when a record lacks the field, unless
\* the lookup is exists
OwedOnMissing(p, coll) ==
    IF p.lookup = "exists"
    THEN Exactly(SelectSeq(coll, LAMBDA r : Has(r, p.path[1]) # p.inverted))
    ELSE IF \E i \in 1..Len(coll) : ~Has(coll[i], p.path[1])
    THEN [exc |-> "MissingField", rows |-> << >>]
    ELSE Exactly(SelectSeq(coll, LAMBDA r : HoldsOn(p, r)))

\* C12: a filter on a field that a record of the collection lacks raises
\* MissingField, for mappings and for objects; exists answers false for the
\* absent field and true under ~; the elements of a nested collection that
\* lack the field are skipped without error.
C12_MissingField ==
    /\ RowsOf(FilterForm("one", conds.p, conds.p)) = OwedOnMissing(conds.p, objects)
    /\ qresult.op = "filter" =>
           qresult = Returned("filter", OwedOnMissing(conds.p, objects))

\* a filter x == 1 ran on objects the second of which lacks x, and raised
C12_Witness ==
    /\ qresult.op = "filter"
    /\ qresult.exc = "MissingField"
    /\ conds.p.lookup = "eq"
    /\ conds.p.path = <<"x">>
    /\ Len(objects) = 2
    /\ objects[1].t = "obj"
    /\ Has(objects[1], "x") /\ objects[1].f.x = Num(1)
    /\ ~Has(objects[2], "x")

----------------------------------------------------------------------------
(* order_by on the in-memory store *)

\* order_by(k1), order_by(k1, k2) on a and order, each key as it is or under ~
OrderKeys == {Ordering(<<f>>, rev) : f \in {"a", "order"}, rev \in BOOLEAN}
OrderByArgs ==
    {<< >>} \cup {<<k>> : k \in OrderKeys}
      \cup {ks \in {<<k1, k2>> : k1 \in OrderKeys, k2 \in OrderKeys} :
                ks[1].path # ks[2].path}

OrderInit ==
    /\ CacheIdle
    /\ HttpIdle
    /\ StoreIdle
    /\ objects \in SeqsUpTo(DictRecords, MaxRecs) \cup SeqsUpTo(ObjRecords, MaxRecs)
    /\ conds = [p |-> Leaf(<<"order">>, "eq", Num(2), FALSE),
                q |-> Leaf(<<"order">>, "eq", Num(2), FALSE)]
    /\ qresult = [op |-> "init", exc |-> "", rows |-> << >>]
    /\ arg \in [op : {"order_by"}, os : OrderByArgs, filtered : BOOLEAN]
    /\ res = NoCall

\* the query of manager.order_by(*os), or of manager.filter(p).order_by(*os);
\* with no key given order_by is not called
OrderQuery(a, p) ==
    LET base == IF a.filtered THEN QFilter(AllQuery, <<p>>) ELSE AllQuery
    IN  IF a.os = << >> THEN base ELSE QOrderBy(base, a.os)

\* list(manager.order_by(...))
OrderBy ==
    /\ qresult.op = "init"
    /\ \E r \in {StoreSelect(objects, OrderQuery(arg, conds.p))} :
           qresult' = Returned("order_by", r)
    /\ UNCHANGED <<objects, conds>>
    /\ UNCHANGED <<cacheVars, httpVars, storeVars, pureVars>>

SpecOrder == OrderInit /\ [][OrderBy]_vars

\* the positions of the matching records in the backing collection
MatchingPositions ==
    {i \in 1..Len(objects) : arg.filtered => Holds(conds.p, objects[i])}

\* the keys of a record, a descending key negated
SortKeys(r, os) ==
    [k \in 1..Len(os) |-> IF os[k].reverse THEN 0 - r.f[os[k].path[1]].v
                          ELSE r.f[os[k].path[1]].v]

\* lexicographic comparison of two key sequences of the same length
LexLess(k1, k2) ==
    \E i \in 1..Len(k1) :
        /\ k1[i] < k2[i]
        /\ \A j \in 1..(i - 1) : k1[j] = k2[j]

\* rows lists the records at the positions pos, each once, by ascending
\* keys, records with equal keys by ascending position
SortedStably(rows, pos, os) ==
    /\ Len(rows) = Cardinality(pos)
    /\ \E f \in [1..Len(rows) -> pos] :
           /\ \A i, j \in 1..Len(rows) : i # j => f[i] # f[j]
           /\ \A i \in 1..Len(rows) : rows[i] = objects[f[i]]
           /\ \A i, j \in 1..Len(rows) :
                  i < j =>
                      \/ LexLess(SortKeys(objects[f[i]], os), SortKeys(objects[f[j]], os))
                      \/ /\ SortKeys(objects[f[i]], os) = SortKeys(objects[f[j]], os)
                         /\ f[i] < f[j]

\* C13: order_by(k1, ..., kn) returns a permutation of the matching records
\* sorted lexicographically by the keys, each ascending or under ~ descending,
\* records equal on all keys in the backing collection's order; without
\* order_by the result is in the backing collection's order.
C13_StableSort ==
    /\ LET r == StoreSelect(objects, OrderQuery(arg, conds.p))
       IN  r.exc = "" /\ SortedStably(r.rows, MatchingPositions, arg.os)
    /\ qresult.op = "order_by" =>
           /\ qresult.exc = ""
           /\ SortedStably(qresult.rows, MatchingPositions, arg.os)

\* order_by(~a) ran on two different records with the same a and kept them in
\* the collection's order
C13_Witness ==
    /\ qresult.op = "order_by"
    /\ arg.os = <<Ordering(<<"a">>, TRUE)>>
    /\ Len(objects) = 2
    /\ objects[1] # objects[2]
    /\ objects[1].f.a = objects[2].f.a
    /\ qresult.rows = objects

----------------------------------------------------------------------------
(* Claims about the disabled cache *)

\* the entry under key is there and has not expired
Live(d, t, key) ==
    /\ key \in DOMAIN d
    /\ d[key].expires_on # NoTimeout => ~Expired(d[key].expires_on, t)

\* what each call would do in the present state of a disabled cache
C14_DisabledCalls ==
    ~enabled =>
        \A k \in Keys :
            /\ \A dv \in Values \cup {NoneVal} :
                   LET g == CacheGet(enabled, data, now, k, dv, FALSE)
                   IN  g.exc = "" /\ g.ret = dv /\ g.data = data /\ ~g.got
            /\ LET g == CacheGet(enabled, data, now, k, NoneVal, TRUE)
               IN  g.exc = "DisabledCache" /\ g.data = data /\ ~g.got
            /\ \A v \in SetArgs, t \in TimeoutArgs :
                   LET w == CacheSet(enabled, data, now, default_timeout, k, v, t)
                   IN  w.ret = FalseVal /\ ~w.called /\ ~w.stored /\ w.data = data
            /\ \A v \in SetArgs :
                   LET r == CacheGetOrSet(enabled, data, now, default_timeout, k, v)
                   IN  r.data = data /\ ~r.called /\ ~r.stored

\* what a call made on a disabled cache did
C14_DisabledStep ==
    (~enabled /\ last'.op \in {"get", "set", "get_or_set"}) =>
        /\ data' = data
        /\ ~last'.got
        /\ last'.op = "get" =>
               \/ last'.exc = "" /\ last'.ret = NoneVal
               \/ last'.exc = "DisabledCache"
        /\ last'.op = "set" => last'.ret = FalseVal

\* C14: while the cache is disabled get(key, default) returns the default for
\* every key, live entries included, get(key, reraise=True) fails with
\* DisabledCache, set returns False without calling a callable value and
\* without storing, and no get, set or get_or_set changes the entries.
C14_Disabled == [](C14_DisabledCalls) /\ [][C14_DisabledStep]_vars

\* a get on the disabled cache returned the default although the key holds a
\* live entry
C14_Witness ==
    /\ ~enabled
    /\ Live(data, now, ScopeKey)
    /\ last.op = "get"
    /\ last.exc = ""
    /\ last.ret = NoneVal

----------------------------------------------------------------------------
(* Claims about set on the enabled cache *)

\* the deadline of an entry stored now with the optional number of seconds t
Deadline(t) == IF t = NoTimeout THEN NoTimeout ELSE Secs(now + t[1])

\* what set(k, v, t) followed at once by get(k) would do in the present state
C15_SetCalls ==
    enabled =>
        \A k \in Keys, v \in SetArgs, t \in TimeoutArgs :
            LET w == CacheSet(enabled, data, now, default_timeout, k, v, t)
                g == CacheGet(enabled, w.data, now, k, NoneVal, TRUE)
            IN  /\ w.ret = v.v
                /\ w.stored
                /\ w.called = v.callable
                /\ k \in DOMAIN w.data
                /\ w.data[k].value = v.v
                /\ g.exc = "" /\ g.ret = v.v
                /\ t = NotSet => w.data[k].expires_on = Deadline(default_timeout)
                /\ t = Timeout(NoTimeout) =>
                       /\ w.data[k].expires_on = NoTimeout
                       /\ \A later \in now..(MaxTime + 1) :
                              CacheGet(enabled, w.data, later, k, NoneVal, TRUE).ret = v.v

\* what a set on the enabled cache did, and the get of the same key right
\* after it
C15_SetStep ==
    /\ (enabled /\ last'.op = "set") =>
           /\ last'.ret \in Values
           /\ last'.key \in DOMAIN data'
           /\ data'[last'.key].value = last'.ret
           /\ \A k \in (DOMAIN data) \ {last'.key} :
                  k \in DOMAIN data' /\ data'[k] = data[k]
    /\ (enabled /\ last.op = "set" /\ last'.op = "get" /\ last'.key = last.key) =>
           /\ last'.exc = ""
           /\ last'.ret = last.ret

\* C15: on the enabled cache set(key, value, timeout) stores and returns the
\* value, or what a callable value returns, and a get right after it returns
\* the same; without a timeout the entry expires by default_timeout, and with
\* a timeout of None it never expires whatever default_timeout is.
C15_SetStores == [](C15_SetCalls) /\ [][C15_SetStep]_vars

\* an entry set with a timeout of None on a cache whose default_timeout is a
\* number was read back at the end of the clock
C15_Witness ==
    /\ enabled
    /\ default_timeout # NoTimeout
    /\ now = MaxTime
    /\ last.op = "get"
    /\ last.key \in DOMAIN data
    /\ data[last.key].expires_on = NoTimeout
    /\ last.ret = data[last.key].value

----------------------------------------------------------------------------
(* Claims about get_or_set on the enabled cache *)

\* the entry has expired at clock time t: t is its deadline t0+T or later
Due(entry, t) ==
    /\ entry.expires_on # NoTimeout
    /\ entry.expires_on[1] <= t

\* get_or_set(k, v) in the present state keeps an entry for which kept holds
\* and replaces any other
GetOrSetKeeps(kept(_)) ==
    enabled =>
        \A k \in Keys, v \in SetArgs :
            LET r == CacheGetOrSet(enabled, data, now, default_timeout, k, v)
                g == CacheGet(enabled, r.data, now, k, NoneVal, TRUE)
            IN  IF k \in DOMAIN data /\ kept(data[k])
                THEN /\ r.exc = ""
                     /\ r.ret = data[k].value
                     /\ r.data = data
                     /\ ~r.called
                ELSE /\ r.exc = ""
                     /\ r.ret = v.v
                     /\ r.called = v.callable
                     /\ k \in DOMAIN r.data
                     /\ r.data[k] = [expires_on |-> Deadline(default_timeout),
                                     value |-> v.v]
                     /\ g.exc = "" /\ g.ret = v.v

\* C16: on the enabled cache get_or_set(key, value) returns the stored value
\* and leaves the entry as it is, calling no callable, when the key holds an
\* unexpired entry; when the key is absent or its entry has expired it stores
\* the value, or what the callable returns, with the default timeout and
\* returns it, and a get after it returns the same.
C16_GetOrSet == GetOrSetKeeps(LAMBDA e : ~Due(e, now))

\* the same with the expiry test of DummyCache._get, for which an entry at its
\* deadline has not expired yet
C16_UpToDeadline ==
    GetOrSetKeeps(LAMBDA e : e.expires_on # NoTimeout => ~Expired(e.expires_on, now))

----------------------------------------------------------------------------
(* lifter/aggregates.py *)

RECURSIVE GCD(_, _)
GCD(m, n) == IF n = 0 THEN m ELSE GCD(n, m % n)

\* a Python number as a fraction in lowest terms: 6 is 6/1, 1.5 is 3/2; an
\* int and a float of the same value compare equal
Number(n, d) == [n |-> n \div GCD(n, d), d |-> d \div GCD(n, d)]

\* Aggregate.__init__, with the name of its class
Aggregate(attr_name, name) == [attr_name |-> attr_name, name |-> name]
AggregateNames == {"sum", "min", "max", "avg"}

\* Aggregate.identifier
Identifier(agg) == agg.attr_name \o "__" \o agg.name

\* the builtins sum, min and max over a list of ints
RECURSIVE SumOf(_)
SumOf(values) == IF values = << >> THEN 0 ELSE values[1] + SumOf(Tail(values))
MinOf(values) ==
    CHOOSE v \in {values[i] : i \in 1..Len(values)} :
        \A i \in 1..Len(values) : v <= values[i]
MaxOf(values) ==
    CHOOSE v \in {values[i] : i \in 1..Len(values)} :
        \A i \in 1..Len(values) : v >= values[i]

\* (mutant) Avg.aggregate divides with //
Reduce_FloorAvg(name, values) ==
    IF name = "sum" THEN [exc |-> "", value |-> Number(SumOf(values), 1)]
    ELSE IF values = << >>
    THEN [exc |-> IF name = "avg" THEN "ZeroDivisionError" ELSE "ValueError",
          value |-> Number(0, 1)]
    ELSE IF name = "min" THEN [exc |-> "", value |-> Number(MinOf(values), 1)]
    ELSE IF name = "max" THEN [exc |-> "", value |-> Number(MaxOf(values), 1)]
    ELSE [exc |-> "", value |-> Number(SumOf(values) \div Len(values), 1)]

\* Sum.aggregate, Min.aggregate, Max.aggregate, Avg.aggregate: min and max of
\* an empty list raise ValueError, the division by its length
\* ZeroDivisionError
Reduce(name, values) ==
    IF name = "sum" THEN [exc |-> "", value |-> Number(SumOf(values), 1)]
    ELSE IF values = << >>
    THEN [exc |-> IF name = "avg" THEN "ZeroDivisionError" ELSE "ValueError",
          value |-> Number(0, 1)]
    ELSE IF name = "min" THEN [exc |-> "", value |-> Number(MinOf(values), 1)]
    ELSE IF name = "max" THEN [exc |-> "", value |-> Number(MaxOf(values), 1)]
    ELSE [exc |-> "", value |-> Number(SumOf(values), Len(values))]

----------------------------------------------------------------------------
(* QuerySet.aggregate *)

\* an aggregate given by position, and one given as name=...
Positional(agg) == [key |-> "", agg |-> agg]
Keyword(name, agg) == [key |-> name, agg |-> agg]

\* the key of an entry in the mapping returned
EntryKey(e) == IF e.key = "" THEN Identifier(e.agg) ELSE e.key

\* the values of a field over the rows
FieldValues(rows, attr_name) ==
    [i \in 1..Len(rows) |-> ResolveAttr(rows[i], attr_name).v.v]

\* the mapping after the entries, each written in turn over what is there
RECURSIVE Reduced(_, _, _)
Reduced(entries, rows, map) ==
    IF entries = << >> THEN [exc |-> "", map |-> map]
    ELSE Only({IF r.exc # "" THEN [exc |-> r.exc, map |-> << >>]
               ELSE Reduced(Tail(entries), rows,
                            [k \in (DOMAIN map) \cup {EntryKey(entries[1])} |->
                                IF k = EntryKey(entries[1]) THEN r.value ELSE map[k]]) :
                  r \in {Reduce(entries[1].agg.name,
                                FieldValues(rows, entries[1].agg.attr_name))}})

\* queryset.aggregate(*args, **kwargs) over the in-memory store
QAggregate(coll, query, entries) ==
    Only({IF sel.exc # "" THEN [exc |-> sel.exc, map |-> << >>]
          ELSE Reduced(entries, sel.rows, << >>) :
             sel \in {StoreSelect(coll, query)}})

\* Sum('a'), Avg('order'), ... and total=..., a__sum=...
PositionalArgs ==
    {Positional(Aggregate(f, n)) : f \in {"a", "order"}, n \in AggregateNames}
KeywordArgs ==
    {Keyword(k, g) : k \in {"total", "a__sum"},
                     g \in {Aggregate("order", "max"), Aggregate("a", "avg")}}
AggregateArgs ==
    {<<e>> : e \in PositionalArgs \cup KeywordArgs}
      \cup {<<e1, e2>> : e1 \in PositionalArgs, e2 \in PositionalArgs \cup KeywordArgs}
      \cup {es \in {<<e1, e2>> : e1 \in KeywordArgs, e2 \in KeywordArgs} :
                es[1].key # es[2].key}

AggregateInit ==
    /\ CacheIdle
    /\ HttpIdle
    /\ StoreIdle
    /\ objects \in SeqsUpTo(DictRecords, MaxRecs)
    /\ conds = [p |-> Leaf(<<"order">>, "eq", Num(2), FALSE),
                q |-> Leaf(<<"order">>, "eq", Num(2), FALSE)]
    /\ qresult = [op |-> "init", exc |-> "", rows |-> << >>]
    /\ arg \in [op : {"aggregate"}, entries : AggregateArgs, filtered : BOOLEAN]
    /\ res = NoCall

\* manager.aggregate(...), or manager.filter(p).aggregate(...)
AggregateCall ==
    /\ res = NoCall
    /\ \E r \in {QAggregate(objects,
                             IF arg.filtered THEN QFilter(AllQuery, <<conds.p>>)
                             ELSE AllQuery,
                             arg.entries)} :
           res' = [op |-> "aggregate", exc |-> r.exc, map |-> r.map]
    /\ UNCHANGED arg
    /\ UNCHANGED <<cacheVars, httpVars, queryVars, storeVars>>

SpecAggregate == AggregateInit /\ [][AggregateCall]_vars

----------------------------------------------------------------------------
(* Claims about aggregate *)

\* the sum of the field over the records at the positions pos
RECURSIVE Total(_, _)
Total(pos, attr_name) ==
    IF pos = {} THEN 0
    ELSE LET i == CHOOSE j \in pos : TRUE
         IN  objects[i].f[attr_name].v + Total(pos \ {i}, attr_name)

\* value is what the aggregate owes over the matching records
Reduces(agg, value) ==
    LET pos == MatchingPositions
        At(i) == objects[i].f[agg.attr_name].v
    IN  IF agg.name = "sum"
        THEN value.d = 1 /\ value.n = Total(pos, agg.attr_name)
        ELSE IF agg.name = "min"
        THEN /\ value.d = 1
             /\ \E i \in pos : At(i) = value.n
             /\ \A i \in pos : value.n <= At(i)
        ELSE IF agg.name = "max"
        THEN /\ value.d = 1
             /\ \E i \in pos : At(i) = value.n
             /\ \A i \in pos : value.n >= At(i)
        ELSE /\ value.d > 0
             /\ value.n * Cardinality(pos) = Total(pos, agg.attr_name) * value.d

\* the last of the entries written under key
LastUnder(entries, key) ==
    entries[CHOOSE i \in 1..Len(entries) :
                /\ EntryKey(entries[i]) = key
                /\ \A j \in (i + 1)..Len(entries) : EntryKey(entries[j]) # key]

\* C17: aggregate(A1, ..., An) returns a mapping with an entry for every
\* aggregate asked for, under "<attr>__<kind>" or under the keyword it was
\* given by, holding the sum, minimum, maximum or average (sum over count) of
\* the field over the matching records; aggregates of one field see the same
\* values, and of two aggregates with the same key the later one's value
\* stays.
C17_Aggregate ==
    res.op = "aggregate" =>
        IF /\ MatchingPositions = {}
           /\ \E i \in 1..Len(arg.entries) : arg.entries[i].agg.name # "sum"
        THEN res.exc \in {"ValueError", "ZeroDivisionError"}
        ELSE /\ res.exc = ""
             /\ DOMAIN res.map =
                    {IF arg.entries[i].key = ""
                     THEN arg.entries[i].agg.attr_name \o "__" \o arg.entries[i].agg.name
                     ELSE arg.entries[i].key : i \in 1..Len(arg.entries)}
             /\ \A k \in DOMAIN res.map :
                    Reduces(LastUnder(arg.entries, k).agg, res.map[k])

\* Sum('a') and a__sum=Avg('a') over records whose a differ: one entry, the
\* average, which is not a whole number
C17_Witness ==
    /\ res.op = "aggregate"
    /\ res.exc = ""
    /\ arg.entries = <<Positional(Aggregate("a", "sum")),
                       Keyword("a__sum", Aggregate("a", "avg"))>>
    /\ DOMAIN res.map = {"a__sum"}
    /\ res.map["a__sum"].d = 2

----------------------------------------------------------------------------
(* Claims about the responses of the remote backend *)

\* C18: a response with a status from 400 to 499 makes the select fail with
\* BadQuery and one with a status from 500 to 599 with StoreError, the body
\* not parsed and no records returned; with any other status the body is
\* parsed and returned. A select that has a request to send sends it once.
C18_StatusMapping ==
    (hresult.op = "select" /\ hresult.built) =>
        /\ hresult.sent = 1
        /\ IF hresult.status >= 400 /\ hresult.status < 500
           THEN hresult.exc = "BadQuery" /\ ~hresult.rows
           ELSE IF hresult.status >= 500 /\ hresult.status < 600
           THEN hresult.exc = "StoreError" /\ ~hresult.rows
           ELSE hresult.exc = "" /\ hresult.rows

\* a select answered with 599 has failed with StoreError after one request
C18_Witness ==
    /\ hresult.op = "select"
    /\ hresult.built
    /\ hresult.status = 599
    /\ hresult.exc = "StoreError"
    /\ hresult.sent = 1
    /\ ~hresult.rows

----------------------------------------------------------------------------
(* Claims about expired entries *)

\* the entry under k is not after the step what it was before
Touched(k) == k \notin DOMAIN data' \/ data'[k] # data[k]

\* a step changes an entry only as an enabled get, set or get_or_set of the
\* entry's own key; the get removes it, finds it expired and reports a miss,
\* the others leave an entry under the key
C19_EntryStep ==
    \A k \in DOMAIN data :
        Touched(k) =>
            /\ enabled
            /\ last'.key = k
            /\ last'.op \in {"get", "set", "get_or_set"}
            /\ last'.op = "get" =>
                   /\ k \notin DOMAIN data'
                   /\ Due(data[k], now)
                   /\ last'.exc = "NotInCache" \/ (last'.exc = "" /\ last'.ret = NoneVal)
            /\ last'.op \in {"set", "get_or_set"} => k \in DOMAIN data'
            /\ last'.op = "get_or_set" => Due(data[k], now)

\* C19: an expired entry stays in storage while the clock advances, other
\* keys are set and read, and the disabled cache is read; only an enabled get
\* of its own key removes it, reporting a miss, and only a set of its own key
\* replaces it. An enabled get changes no entry of another key and no
\* unexpired entry.
C19_LazyEviction == [][C19_EntryStep]_vars

\* the enabled cache has just been read for k1 while the entry of k2, past
\* its deadline, is still stored
C19_Witness ==
    /\ enabled
    /\ last.op = "get"
    /\ last.key = "k1"
    /\ "k2" \in DOMAIN data
    /\ data["k2"].expires_on # NoTimeout
    /\ Expired(data["k2"].expires_on, now)

----------------------------------------------------------------------------
(* Claims about togglers created ahead of their block *)

\* a with-block is left
LeavesBlock == Len(stack') < Len(stack)

\* C20 as stated: for every toggler that enable() or disable() returned, also
\* one created before another block changed the flag and one entered more
\* than once, the flag after its block is left is the flag from just before
\* the block was entered.
C20_Original == [][LeavesBlock => enabled' = Top(stack).before]_vars

\* what leaving a block does to the flag
C20_LeaveStep ==
    LeavesBlock =>
        /\ enabled' = Top(stack).made
        /\ (Top(stack).made = Top(stack).before) => (enabled' = Top(stack).before)

\* C20: for every toggler that enable() or disable() returned, also one
\* created before another block changed the flag and one entered more than
\* once, the flag after its block is left is the flag from when the toggler
\* was created; that is the flag from just before the block was entered
\* whenever the flag did not change in between.
C20_RestoresCreation == [][C20_LeaveStep]_vars

\* inside the block of the second toggler, which set the flag, the block of
\* the first toggler was entered and left: the flag is the one from the first
\* toggler's creation, not the one from before its block
C20_Witness ==
    /\ last.op = "exit"
    /\ Len(stack) = 1
    /\ Len(togglers) = 2
    /\ stack[1].id = 2
    /\ togglers[2].made # togglers[1].made
    /\ togglers[1].made # stack[1].tog.new_value
    /\ enabled = togglers[1].made

----------------------------------------------------------------------------
(* Claims about the parameters of the request *)

\* the number of values under all keys of a dict of lists
RECURSIVE ValueCount(_, _)
ValueCount(keys, val) ==
    IF keys = << >> THEN 0
    ELSE Len(val[keys[1]]) + ValueCount(Tail(keys), val)

\* the tree has only eq leaves under AND composites, nothing inverted
FullySupported(tree) ==
    tree # NoNode /\ \A n \in NodesOf(tree) : ~Offending(n)

\* C21: for a fully supported filter tree every leaf's operand reaches the
\* parameters of the request after the field names are converted: the values
\* under all keys are as many as the leaves of the tree, also when two
\* different paths are converted to the same name.
C21_AllOperandsSent ==
    (hresult.op = "select" /\ hresult.built /\ FullySupported(hquery.filters)) =>
        /\ DOMAIN hresult.params.val =
               {ToCamelCase(hresult.qs.keys[i]) : i \in 1..Len(hresult.qs.keys)}
        /\ ValueCount(hresult.params.keys, hresult.params.val)
               = Len(LeavesOf(hquery.filters))

\* the same for the trees in which no two different paths are converted to
\* the same name
C21_WithoutCollision ==
    (/\ hresult.op = "select" /\ hresult.built /\ FullySupported(hquery.filters)
     /\ \A i, j \in 1..Len(hresult.qs.keys) :
            ToCamelCase(hresult.qs.keys[i]) = ToCamelCase(hresult.qs.keys[j]) => i = j) =>
        ValueCount(hresult.params.keys, hresult.params.val)
            = Len(LeavesOf(hquery.filters))

----------------------------------------------------------------------------
(* Claims about the orderings of a remote query *)

\* the request was built and its parameters are not those of the same query
\* without its orderings
OrderingSent ==
    /\ hresult.built
    /\ hresult.params # BuildRequest([hquery EXCEPT !.orderings = << >>]).d

\* C22: a remote query with an ordering is not silently degraded: the
\* ordering is in the parameters of the request, or the query fails with
\* UnsupportedQuery and no request is sent, with filters and without.
C22_OrderingSurfaced ==
    (hresult.op = "select" /\ hquery.orderings # << >>) =>
        \/ OrderingSent
        \/ hresult.exc = "UnsupportedQuery" /\ hresult.sent = 0

\* the weaker statement for the queries that have filters: no request is sent
C22_FilteredNeverSent ==
    (hresult.op = "select" /\ hquery.orderings # << >> /\ hquery.filters # NoNode) =>
        hresult.exc \in {"UnsupportedQuery", "AttributeError"} /\ hresult.sent = 0

=============================================================================
